---- MODULE Spec2Model ----
(***************************************************************************)
(* ProjectAnalyzer (backend/services/project_analyzer.py): the file        *)
(* classification pipeline analyze_files / analyze_repository, modelled as *)
(* a state machine over the scan loop and the result assembly.             *)
(*                                                                         *)
(* Python values are represented as follows.                               *)
(*   str            a TLA+ string                                          *)
(*   Optional[str]  <<>> for None, <<s>> for the string s                  *)
(*   dict           a sequence of <<key, value>> pairs in insertion order  *)
(*   set            a TLA+ set; turning a set into a list (list(s)) picks  *)
(*                  an arbitrary order, as the hash order of str is not    *)
(*                  fixed across interpreter runs                          *)
(*   float score    an integer number of thousandths                      *)
(***************************************************************************)
EXTENDS Integers, Sequences, FiniteSets, TLC

VARIABLES entry, repo_data, file_contents, pc, idx, languages, frameworks,
          databases, file_structure, total_lines, analysis_result,
          runs, prev_result, buckets, invocations, hash_order, store,
          response

vars == <<entry, repo_data, file_contents, pc, idx, languages, frameworks,
          databases, file_structure, total_lines, analysis_result,
          runs, prev_result, buckets, invocations, hash_order, store,
          response>>

\* the state of the concurrent requests, of the vector store and of the HTTP
\* handler, which the single-request pipeline leaves alone
aux == <<invocations, hash_order, store, response>>

(***************************************************************************)
(* Bounds of the model.                                                    *)
(***************************************************************************)
MaxFiles == 3

MaxRepoFiles == 2

MaxRerunFiles == 2

MaxRuns == 2

MaxLineSteps == 24

LineStep == 500

(***************************************************************************)
(* str helpers.                                                            *)
(***************************************************************************)
Char(s, i) == SubSeq(s, i, i)

UpperLetters == "ABCDEFGHIJKLMNOPQRSTUVWXYZ"

LowerLetters == "abcdefghijklmnopqrstuvwxyz"

LowerChar(c) ==
    IF \E i \in 1..26 : Char(UpperLetters, i) = c
    THEN Char(LowerLetters, CHOOSE i \in 1..26 : Char(UpperLetters, i) = c)
    ELSE c

RECURSIVE Lower(_)
Lower(s) ==
    IF Len(s) = 0 THEN ""
    ELSE IF Len(s) = 1 THEN LowerChar(s)
    ELSE LET h == Len(s) \div 2
         IN  Lower(SubSeq(s, 1, h)) \o Lower(SubSeq(s, h + 1, Len(s)))

\* str.find / the `in` operator on str
Find(s, sub) ==
    LET hits == {i \in 1..(Len(s) - Len(sub) + 1) :
                    SubSeq(s, i, i + Len(sub) - 1) = sub}
    IN  IF hits = {} THEN 0
        ELSE CHOOSE i \in hits : \A j \in hits : i <= j

RFind(s, sub) ==
    LET hits == {i \in 1..(Len(s) - Len(sub) + 1) :
                    SubSeq(s, i, i + Len(sub) - 1) = sub}
    IN  IF hits = {} THEN 0
        ELSE CHOOSE i \in hits : \A j \in hits : j <= i

StrIn(sub, s) == Find(s, sub) > 0

\* str.split(sep) for a one-character separator
Split(s, sep) ==
    LET cuts == {i \in 1..Len(s) : Char(s, i) = sep}
        n == Cardinality(cuts)
        cut(k) == IF k = 0 THEN 0
                  ELSE IF k = n + 1 THEN Len(s) + 1
                  ELSE CHOOSE i \in cuts : Cardinality({j \in cuts : j < i}) = k - 1
    IN  [k \in 1..(n + 1) |-> SubSeq(s, cut(k - 1) + 1, cut(k) - 1)]

\* sep.join(parts)
RECURSIVE Join(_, _)
Join(sep, parts) ==
    IF Len(parts) = 0 THEN ""
    ELSE IF Len(parts) = 1 THEN parts[1]
    ELSE parts[1] \o sep \o Join(sep, Tail(parts))

\* s * n
RECURSIVE Repeat(_, _)
Repeat(s, n) ==
    IF n = 0 THEN ""
    ELSE LET half == Repeat(s, n \div 2)
         IN  IF n % 2 = 0 THEN half \o half ELSE half \o half \o s

\* pathlib: Path(p).name and Path(p).suffix
PathName(p) == SubSeq(p, RFind(p, "/") + 1, Len(p))

PathSuffix(p) ==
    LET n == PathName(p)
        i == RFind(n, ".")
    IN  IF 1 < i /\ i < Len(n) THEN SubSeq(n, i, Len(n)) ELSE ""

(***************************************************************************)
(* dict helpers: a dict is a sequence of <<key, value>> pairs, in          *)
(* insertion order.                                                        *)
(***************************************************************************)
DictHas(d, k) == \E i \in 1..Len(d) : d[i][1] = k

DictGet(d, k, default) ==
    IF DictHas(d, k) THEN d[CHOOSE i \in 1..Len(d) : d[i][1] = k][2]
    ELSE default

DictSet(d, k, v) ==
    IF DictHas(d, k)
    THEN [i \in 1..Len(d) |-> IF d[i][1] = k THEN <<k, v>> ELSE d[i]]
    ELSE Append(d, <<k, v>>)

DictKeys(d) == [i \in 1..Len(d) |-> d[i][1]]

DictKeySet(d) == {d[i][1] : i \in 1..Len(d)}

SeqToSet(s) == {s[i] : i \in 1..Len(s)}

(***************************************************************************)
(* Regular expressions of the re module.  A pattern is a sequence of       *)
(* elements: a literal, `.*`, a character class, an optional literal       *)
(* (`x?`) and the end anchor `$`.                                          *)
(***************************************************************************)
Lit(s) == [t |-> "lit", s |-> s]

DotStar == [t |-> "any", s |-> ""]

Cls(s) == [t |-> "cls", s |-> s]

Opt(s) == [t |-> "opt", s |-> s]

Eos == [t |-> "eos", s |-> ""]

Quote == Cls("'\"")

RECURSIVE MatchAt(_, _, _, _)
MatchAt(pat, k, s, i) ==
    IF k > Len(pat) THEN TRUE
    ELSE LET e == pat[k]
             n == Len(e.s)
         IN  CASE e.t = "lit" ->
                    /\ i + n - 1 <= Len(s)
                    /\ SubSeq(s, i, i + n - 1) = e.s
                    /\ MatchAt(pat, k + 1, s, i + n)
               [] e.t = "cls" ->
                    /\ i <= Len(s)
                    /\ StrIn(Char(s, i), e.s)
                    /\ MatchAt(pat, k + 1, s, i + 1)
               [] e.t = "opt" ->
                    \/ /\ i + n - 1 <= Len(s)
                       /\ SubSeq(s, i, i + n - 1) = e.s
                       /\ MatchAt(pat, k + 1, s, i + n)
                    \/ MatchAt(pat, k + 1, s, i)
               [] e.t = "any" ->
                    \E j \in i..(Len(s) + 1) :
                        /\ \A m \in i..(j - 1) : Char(s, m) /= "\n"
                        /\ MatchAt(pat, k + 1, s, j)
               [] e.t = "eos" ->
                    /\ \/ i = Len(s) + 1
                       \/ i = Len(s) /\ Char(s, i) = "\n"
                    /\ MatchAt(pat, k + 1, s, i)

LowerPat(pat) == [k \in 1..Len(pat) |-> [t |-> pat[k].t, s |-> Lower(pat[k].s)]]

\* re.search(pattern, content): is there a match at some position
ReSearch(pat, s) == \E i \in 1..(Len(s) + 1) : MatchAt(pat, 1, s, i)

\* re.search(pattern, content, re.IGNORECASE): both sides are case-folded
ReSearchIgnoreCase(pat, content) == ReSearch(LowerPat(pat), Lower(content))

(***************************************************************************)
(* re.findall.  A capturing pattern is a sequence of elements: a literal,  *)
(* one character of a class, a greedy repetition of a class (`c*`, `c+`),  *)
(* an alternation of literals, an optional group (`(?:...)?`) and the two  *)
(* ends of a capture group.  The match at a position is the first one in   *)
(* the order of a backtracking matcher: a repetition tries its longest run *)
(* first, an optional group is tried before it is skipped.  Under          *)
(* re.IGNORECASE the comparison runs on the case-folded text and the       *)
(* captures are cut from the text as given.                                *)
(***************************************************************************)
CharsOf(s) == {Char(s, i) : i \in 1..Len(s)}

\* the character classes: the digits, \w, \s, ['"] and the empty class
CharClass ==
    [digits |-> CharsOf("0123456789"),
     word |-> CharsOf(UpperLetters \o LowerLetters \o "0123456789" \o "_"),
     space |-> CharsOf(" \t\n\r\f"),
     quote |-> CharsOf("'\""),
     none |-> {}]

L(s) == [t |-> "lit", s |-> s, c |-> CharClass.none, neg |-> FALSE, min |-> 0, p |-> <<>>]

\* one character of the class (of its complement when neg)
One(c, neg) == [t |-> "one", s |-> "", c |-> c, neg |-> neg, min |-> 1, p |-> <<>>]

\* c* (min = 0) or c+ (min = 1), greedy
Rep(c, neg, min) == [t |-> "rep", s |-> "", c |-> c, neg |-> neg, min |-> min, p |-> <<>>]

\* (a|b|...) of literals, in the order written
Alt(lits) == [t |-> "alt", s |-> "", c |-> CharClass.none, neg |-> FALSE, min |-> 0, p |-> lits]

\* (?:...)? around the elements p
OptGroup(p) == [t |-> "optg", s |-> "", c |-> CharClass.none, neg |-> FALSE, min |-> 0, p |-> p]

\* the elements the patterns of the extractors are written with: the two
\* ends of a capture group, \s+, \s*, \w+, ['"], [^'"]+ and .* (the dot
\* matches every character but the newline)
Re ==
    [open |-> [t |-> "co", s |-> "", c |-> CharClass.none, neg |-> FALSE,
               min |-> 0, p |-> <<>>],
     close |-> [t |-> "cc", s |-> "", c |-> CharClass.none, neg |-> FALSE,
                min |-> 0, p |-> <<>>],
     spaces1 |-> Rep(CharClass.space, FALSE, 1),
     spaces0 |-> Rep(CharClass.space, FALSE, 0),
     word1 |-> Rep(CharClass.word, FALSE, 1),
     quote |-> One(CharClass.quote, FALSE),
     not_quote1 |-> Rep(CharClass.quote, TRUE, 1),
     dots0 |-> Rep({"\n"}, TRUE, 0)]

InClass(ch, e) == IF e.neg THEN ch \notin e.c ELSE ch \in e.c

\* the length of the longest run of class characters of `text` from i on
RECURSIVE RunLength(_, _, _)
RunLength(e, text, i) ==
    IF i <= Len(text) /\ InClass(Char(text, i), e)
    THEN 1 + RunLength(e, text, i + 1)
    ELSE 0

NoMatch == <<>>

\* Match(pat, text, orig, i, caps, start): the match of the elements pat at
\* position i, <<[end, caps]>> or NoMatch; caps are the captures closed so
\* far and start is where the open capture began
RECURSIVE Match(_, _, _, _, _, _)
RECURSIVE TryRep(_, _, _, _, _, _, _, _)
RECURSIVE TryAlt(_, _, _, _, _, _, _, _)
Match(pat, text, orig, i, caps, start) ==
    IF Len(pat) = 0 THEN <<[end |-> i, caps |-> caps]>>
    ELSE LET e == Head(pat)
             rest == Tail(pat)
             n == Len(e.s)
         IN  CASE e.t = "lit" ->
                    IF i + n - 1 <= Len(text) /\ SubSeq(text, i, i + n - 1) = e.s
                    THEN Match(rest, text, orig, i + n, caps, start)
                    ELSE NoMatch
               [] e.t = "one" ->
                    IF i <= Len(text) /\ InClass(Char(text, i), e)
                    THEN Match(rest, text, orig, i + 1, caps, start)
                    ELSE NoMatch
               [] e.t = "rep" ->
                    TryRep(rest, text, orig, i, caps, start,
                           RunLength(e, text, i), e.min)
               [] e.t = "alt" ->
                    TryAlt(e.p, rest, text, orig, i, caps, start, 1)
               [] e.t = "optg" ->
                    LET taken == Match(e.p \o rest, text, orig, i, caps, start)
                    IN  IF taken /= NoMatch THEN taken
                        ELSE Match(rest, text, orig, i, caps, start)
               [] e.t = "co" -> Match(rest, text, orig, i, caps, i)
               [] e.t = "cc" ->
                    Match(rest, text, orig, i,
                          Append(caps, SubSeq(orig, start, i - 1)), start)

TryRep(rest, text, orig, i, caps, start, n, min) ==
    IF n < min THEN NoMatch
    ELSE LET r == Match(rest, text, orig, i + n, caps, start)
         IN  IF r /= NoMatch THEN r
             ELSE TryRep(rest, text, orig, i, caps, start, n - 1, min)

TryAlt(lits, rest, text, orig, i, caps, start, k) ==
    IF k > Len(lits) THEN NoMatch
    ELSE LET r == Match(<<L(lits[k])>> \o rest, text, orig, i, caps, start)
         IN  IF r /= NoMatch THEN r
             ELSE TryAlt(lits, rest, text, orig, i, caps, start, k + 1)

\* the non-overlapping matches from position i on, left to right, each as
\* the sequence of its captures
RECURSIVE FindFrom(_, _, _, _)
FindFrom(pat, text, orig, i) ==
    LET starts == {j \in i..Len(text) :
                      Match(pat, text, orig, j, <<>>, j) /= NoMatch}
    IN  IF starts = {} THEN <<>>
        ELSE LET j == CHOOSE m \in starts : \A n \in starts : m <= n
                 r == Match(pat, text, orig, j, <<>>, j)
             IN  <<r[1].caps>> \o
                 FindFrom(pat, text, orig,
                          IF r[1].end > j THEN r[1].end ELSE j + 1)

\* re.findall(pattern, content)
FindAll(pat, content) == FindFrom(pat, content, content, 1)

RECURSIVE FoldPat(_)
FoldPat(pat) ==
    [k \in 1..Len(pat) |->
        [pat[k] EXCEPT !.s = Lower(@),
                       !.p = IF pat[k].t = "alt"
                             THEN [j \in 1..Len(@) |-> Lower(@[j])]
                             ELSE IF pat[k].t = "optg" THEN FoldPat(@)
                             ELSE @]]

\* re.findall(pattern, content, re.IGNORECASE)
FindAllIgnoreCase(pat, content) ==
    FindFrom(FoldPat(pat), Lower(content), content, 1)

\* the first group of every match (findall of a pattern with one group)
Firsts(matches) == [k \in 1..Len(matches) |-> matches[k][1]]

(***************************************************************************)
(* The extractors of the aspect analyzers (lines 470-558).                 *)
(***************************************************************************)
\* str.upper()
RECURSIVE Upper(_)
Upper(s) ==
    IF Len(s) = 0 THEN ""
    ELSE IF Len(s) = 1
    THEN IF \E i \in 1..26 : Char(LowerLetters, i) = s
         THEN Char(UpperLetters, CHOOSE i \in 1..26 : Char(LowerLetters, i) = s)
         ELSE s
    ELSE LET h == Len(s) \div 2
         IN  Upper(SubSeq(s, 1, h)) \o Upper(SubSeq(s, h + 1, Len(s)))

\* any(key in s for key in keys)
AnyIn(keys, s) == \E k \in 1..Len(keys) : StrIn(keys[k], s)

\* the concatenation of a sequence of sequences
RECURSIVE Concat(_)
Concat(qs) == IF Len(qs) = 0 THEN <<>> ELSE Head(qs) \o Concat(Tail(qs))

\* _identify_file_purpose, lines 470-487
IdentifyFilePurpose(filename, content) ==
    LET filename_lower == Lower(filename)
    IN  IF StrIn("package.json", filename_lower)
        THEN "Node.js package configuration"
        ELSE IF StrIn("requirements.txt", filename_lower)
        THEN "Python dependencies"
        ELSE IF StrIn("main", filename_lower) THEN "Application entry point"
        ELSE IF StrIn("index", filename_lower) THEN "Index/entry file"
        ELSE IF StrIn("app", filename_lower) THEN "Main application file"
        ELSE IF StrIn("config", filename_lower) THEN "Configuration file"
        ELSE "Source file"

\* _extract_exports, lines 489-501
ExtractExports(content) ==
    LET export_patterns ==
            << <<L("export"), Re.spaces1, OptGroup(<<L("default"), Re.spaces1>>),
                 OptGroup(<<L("function"), Re.spaces1>>),
                 Re.open, Re.word1, Re.close>>,
               <<L("export"), Re.spaces0, L("{"), Re.spaces0,
                 Re.open, Rep({"}"}, TRUE, 1), Re.close, Re.spaces0, L("}")>> >>
    IN  Concat([k \in 1..Len(export_patterns) |->
                   Firsts(FindAll(export_patterns[k], content))])

\* _extract_imports, lines 503-515
ExtractImports(content) ==
    LET import_patterns ==
            << <<L("import"), Re.spaces1, Re.dots0, L("from"), Re.spaces1, Re.quote,
                 Re.open, Re.not_quote1, Re.close, Re.quote>>,
               <<L("require("), Re.quote, Re.open, Re.not_quote1, Re.close,
                 Re.quote, L(")")>> >>
    IN  Concat([k \in 1..Len(import_patterns) |->
                   Firsts(FindAll(import_patterns[k], content))])

\* _extract_css_classes, lines 517-520: the set of the class names, which
\* list(set(classes)) lists in the iteration order of the set
ExtractCssClasses(content) ==
    LET first == CharsOf(UpperLetters \o LowerLetters \o "_-")
        later == first \cup CharClass.digits
        classes == Firsts(FindAll(<<L("."), Re.open, One(first, FALSE),
                                    Rep(later, FALSE, 0), Re.close>>, content))
    IN  SeqToSet(classes)

\* the route patterns of lines 527-531
EndpointPattern(prefix) ==
    <<L(prefix), Re.open, Alt(<<"get", "post", "put", "delete", "patch">>),
      Re.close, L("("), Re.quote, Re.open, Re.not_quote1, Re.close, Re.quote>>

\* the route patterns matched in the letter case they are written in
ExtractApiEndpoints_CaseSensitive(content) ==
    LET patterns == <<EndpointPattern("@app."), EndpointPattern("@router."),
                      EndpointPattern("app.")>>
        found(k) == FindAll(patterns[k], content)
    IN  Concat([k \in 1..Len(patterns) |->
                   [m \in 1..Len(found(k)) |->
                       [method |-> Upper(found(k)[m][1]),
                        path |-> found(k)[m][2]]]])

\* _extract_api_endpoints, lines 522-538
ExtractApiEndpoints(content) ==
    LET patterns == <<EndpointPattern("@app."), EndpointPattern("@router."),
                      EndpointPattern("app.")>>
        found(k) == FindAllIgnoreCase(patterns[k], content)
    IN  Concat([k \in 1..Len(patterns) |->
                   [m \in 1..Len(found(k)) |->
                       [method |-> Upper(found(k)[m][1]),
                        path |-> found(k)[m][2]]]])

\* _extract_models, lines 540-548
ExtractModels(content) ==
    Firsts(FindAll(<<L("class"), Re.spaces1, Re.open, Re.word1, Re.close>>, content))

\* _extract_sql_tables, lines 550-558
ExtractSqlTables(content) ==
    Firsts(FindAllIgnoreCase(
        <<L("CREATE"), Re.spaces1, L("TABLE"), Re.spaces1,
          OptGroup(<<L("IF"), Re.spaces1, L("NOT"), Re.spaces1, L("EXISTS"),
                     Re.spaces1>>),
          Re.open, Re.word1, Re.close>>, content))

(***************************************************************************)
(* ProjectAnalyzer.__init__: the Language Table and the Signature Catalog. *)
(***************************************************************************)
supported_extensions ==
    << <<".py", "Python">>, <<".js", "JavaScript">>, <<".jsx", "React">>,
       <<".ts", "TypeScript">>, <<".tsx", "React TypeScript">>,
       <<".java", "Java">>, <<".cpp", "C++">>, <<".c", "C">>, <<".cs", "C#">>,
       <<".php", "PHP">>, <<".rb", "Ruby">>, <<".go", "Go">>, <<".rs", "Rust">>,
       <<".swift", "Swift">>, <<".kt", "Kotlin">>, <<".scala", "Scala">>,
       <<".html", "HTML">>, <<".css", "CSS">>, <<".scss", "SCSS">>,
       <<".sass", "SASS">>, <<".json", "JSON">>, <<".xml", "XML">>,
       <<".yaml", "YAML">>, <<".yml", "YAML">>, <<".md", "Markdown">>,
       <<".txt", "Text">> >>

framework_patterns ==
    << <<"React",   << <<Lit("import"), DotStar, Lit("react")>>,
                       <<Lit("from "), Quote, Lit("react"), Quote>>,
                       <<Lit("React.")>> >> >>,
       <<"Vue",     << <<Lit("import"), DotStar, Lit("vue")>>,
                       <<Lit("from "), Quote, Lit("vue"), Quote>>,
                       <<Lit("Vue.")>> >> >>,
       <<"Angular", << <<Lit("@angular")>>,
                       <<Lit("import"), DotStar, Lit("@angular")>>,
                       <<Lit("ng-")>> >> >>,
       <<"Express", << <<Lit("express()")>>,
                       <<Lit("require("), Quote, Lit("express"), Quote>>,
                       <<Lit("import"), DotStar, Lit("express")>> >> >>,
       <<"Django",  << <<Lit("from django")>>,
                       <<Lit("import django")>>,
                       <<Lit("django.")>> >> >>,
       <<"Flask",   << <<Lit("from flask")>>,
                       <<Lit("import flask")>>,
                       <<Lit("Flask(")>> >> >>,
       <<"FastAPI", << <<Lit("from fastapi")>>,
                       <<Lit("import fastapi")>>,
                       <<Lit("FastAPI(")>> >> >>,
       <<"Spring",  << <<Lit("@SpringBootApplication")>>,
                       <<Lit("import"), DotStar, Lit("springframework")>>,
                       <<Lit("@RestController")>> >> >>,
       <<"Laravel", << <<Lit("use Illuminate")>>,
                       <<Lit("Illuminate\\")>>,
                       <<Opt("<"), Lit("php"), DotStar, Lit("laravel")>> >> >>,
       <<"Rails",   << <<Lit("require "), Quote, Lit("rails"), Quote>>,
                       <<Lit("Rails.")>>,
                       <<Lit("class"), DotStar,
                         Lit("< ApplicationController")>> >> >> >>

database_patterns ==
    << <<"MongoDB",    << <<Lit("mongoose")>>, <<Lit("mongodb://")>>,
                          <<Lit("MongoClient")>>, <<Lit("from pymongo")>> >> >>,
       <<"PostgreSQL", << <<Lit("postgresql://")>>, <<Lit("psycopg2")>>,
                          <<Lit("pg_")>>, <<Lit("PostgreSQL")>> >> >>,
       <<"MySQL",      << <<Lit("mysql://")>>, <<Lit("pymysql")>>,
                          <<Lit("mysql2")>>, <<Lit("MySQL")>> >> >>,
       <<"SQLite",     << <<Lit("sqlite3")>>, <<Lit(".db"), Eos>>,
                          <<Lit("sqlite://")>> >> >>,
       <<"Redis",      << <<Lit("redis://")>>, <<Lit("import redis")>>,
                          <<Lit("Redis(")>> >> >>,
       <<"Firebase",   << <<Lit("firebase")>>, <<Lit("firestore")>>,
                          <<Lit("Firebase")>> >> >> >>

(***************************************************************************)
(* The inputs: file records an upload or a repository can hold.            *)
(***************************************************************************)
File(name, content, type) == [name |-> name, content |-> content, type |-> type]

SampleFiles ==
    { File("App.jsx", "import React from 'react'\nexport default App", <<>>),
      File("server.py", "from flask import Flask\napp = Flask(__name__)\n",
           <<"text/x-python">>),
      File("api.PY", "from fastapi import FastAPI\n@app.get('/users')",
           <<"text/x-python">>),
      File("index.html", "<html></html>", <<"text/html">>),
      File("style.css", ".box { color: red }\n", <<"text/css">>),
      File("models.py", "import psycopg2\nclass User: pass",
           <<"text/x-python">>),
      File("Makefile", "", <<>>) }

\* files that carry several signatures at once, a signature in another
\* letter case, a signature that only a later pattern of its technology
\* finds, and no signature at all
DetectionFiles ==
    { File("app.js", "const express = require('express')\nconst mongoose = require('mongoose')\nvar app = express()", <<>>),
      File("views.py", "from django.db import models\nimport REDIS\nfrom flask import Flask", <<>>),
      File("main.ts", "import { Component } from '@angular/core'", <<>>),
      File("settings.py", "DATABASE = data.db", <<>>),
      File("notes.txt", "nothing to see", <<>>) }

\* files for the aspect analyzers: a component, a stylesheet (its name also
\* passes the backend test), two backend files (one also passes the database
\* test), a schema, a file that passes the database and the config test, a
\* config file and a file of no bucket
AspectFiles ==
    { File("Home.vue", "import api from './api'\nexport default Home\nconst n = useState(0)", <<>>),
      File("theme.css", ".btn{}\n.nav-bar a{}", <<>>),
      File("user_model.py", "class User(Base): pass\nclass Post: pass", <<>>),
      File("app_controller.py", "from flask import Flask\n@app.get('/users')\n@router.POST(\"/items\")\nif __name__ == '__main__': main()", <<>>),
      File("schema.sql", "CREATE TABLE users (id int);\ncreate table if not exists posts (id int)", <<>>),
      File("database.env", "AUTH_KEY=1", <<>>),
      File(".env", "DEBUG=1", <<>>),
      File("user_service.dart", "router.fetch('/route') of @angular/core",
           <<>>) }

\* files written as a first line and one route declaration per further
\* line, each with the declarations it was written from (the receiver with
\* its dot, the method name, the quote and the path): three backend files
\* (decorators on app and on router, calls on app, in several letter cases
\* and with both quotes), a backend file without a declaration, and a
\* frontend file and a file of no bucket that carry a declaration
RouteSamples ==
    LET Decl(prefix, method, quote, path) ==
            [prefix |-> prefix, method |-> method, quote |-> quote,
             path |-> path]
        Text(d) ==
            d.prefix \o d.method \o "(" \o d.quote \o d.path \o d.quote \o ")"
        Sample(name, head, decls) ==
            [file |-> File(name,
                           Join("\n", <<head>> \o
                                   [k \in 1..Len(decls) |-> Text(decls[k])]),
                           <<>>),
             decls |-> decls]
    IN  { Sample("server.py", "from fastapi import FastAPI",
                 <<Decl("@app.", "get", "'", "/users")>>),
          Sample("routes.py", "import x",
                 <<Decl("@router.", "post", "'", "/items"),
                   Decl("@ROUTER.", "Put", "\"", "/items/1")>>),
          Sample("main.rb", "x = 1",
                 <<Decl("app.", "delete", "'", "/users/1"),
                   Decl("app.", "PATCH", "\"", "/users/2")>>),
          Sample("plain.py", "print('hello')", <<>>),
          Sample("page.html", "<html>",
                 <<Decl("@app.", "get", "'", "/hidden")>>),
          Sample("server.js", "x", <<Decl("app.", "get", "'", "/js")>>) }

RouteFiles == {sample.file : sample \in RouteSamples}

\* the lines of the file that the long inputs repeat
BlockLines == 250

\* files for the figures of the detailed analysis, none of them with an
\* extension of the Language Table unless noted:
\*   lines       a file of BlockLines lines, one of a line less, one of one
\*               line and one of two
\*   layers      names that hold the keywords of the layers and patterns,
\*               one of them two keywords, one a keyword in capitals, one
\*               none; the Java file carries a Spring signature
\*   flows       contents that hold the markers of the flow tags, some in
\*               another letter case, in a frontend file, a backend file and
\*               files of no bucket
\*   components  names with the component extensions, one in capitals, two
\*               of the contents with a flow marker
DetailFiles ==
    [lines |->
        { File("block.dat", Repeat("\n", BlockLines - 1), <<>>),
          File("most.dat", Repeat("\n", BlockLines - 2), <<>>),
          File("one.dat", "x", <<>>),
          File("two.dat", "a\nb", <<>>) },
     layers |->
        { File("UserController.java", "@RestController\nclass UserController {}",
               <<>>),
          File("user_service.dat", "x", <<>>),
          File("ServiceController.dat", "x", <<>>),
          File("ModelService.dat", "x", <<>>),
          File("USER_MODEL.dat", "x", <<>>),
          File("Entity.dat", "x", <<>>),
          File("UserRepository.dat", "x", <<>>),
          File("readme.dat", "x", <<>>) },
     flows |->
        { File("View.vue", "fetch(url)", <<>>),
          File("client.dat", "axios.get(url)", <<>>),
          File("store.dat", "this.state = props", <<>>),
          File("hooks.dat", "useState(0)", <<>>),
          File("urls.py", "@app.route('/')\nuse Middleware", <<>>),
          File("guard.dat", "AUTHENTICATE via @router", <<>>),
          File("other.dat", "Axios STATE Props @Router", <<>>) },
     components |->
        { File("A.jsx", "export default A(props)", <<>>),
          File("B.tsx", "export const B = fetch(url)", <<>>),
          File("C.vue", "<template/>", <<>>),
          File("Upper.VUE", "<template/>", <<>>) }]

\* every file record the specifications draw their inputs from
InputFiles ==
    SampleFiles \cup DetectionFiles \cup AspectFiles \cup RouteFiles
        \cup DetailFiles.lines \cup DetailFiles.layers \cup DetailFiles.flows
        \cup DetailFiles.components

RECURSIVE SeqsUpTo(_, _)
SeqsUpTo(S, n) ==
    IF n = 0 THEN {<<>>}
    ELSE LET shorter == SeqsUpTo(S, n - 1)
         IN  shorter \cup {Append(q, x) : q \in shorter, x \in S}

DistinctNames(q) ==
    \A i, j \in 1..Len(q) : i /= j => q[i].name /= q[j].name

\* mimetypes.guess_type(path)[0] on the names above
GuessType(path) ==
    LET f == CHOOSE g \in SampleFiles : g.name = path IN f.type

\* dict.get(key, default) on a dict with fixed keys
RecGet(r, k, default) == IF k \in DOMAIN r THEN r[k] ELSE default

\* GitHubService.clone_and_analyze: the repository record, with or without
\* the metadata of the GitHub API
RepoData(q, withMeta) ==
    LET base == [url |-> <<"https://github.com/o/demo">>,
                 files |-> [i \in 1..Len(q) |-> <<q[i].name, q[i].content>>],
                 file_count |-> Len(q)]
        meta == [name |-> <<"demo">>, description |-> <<"a demo">>,
                 stars |-> 5, forks |-> 1, language |-> <<"Python">>,
                 topics |-> <<"web">>]
    IN  IF withMeta THEN base @@ meta ELSE base

NoRepo == <<>>

NoResult == <<>>

\* the four lists of _generate_detailed_analysis before it has run
NoBuckets ==
    [frontend_files |-> <<>>, backend_files |-> <<>>, database_files |-> <<>>,
     config_files |-> <<>>]

\* store_project_data, lines 64-66: the batch as first built; added tells
\* whether the collection has received it (line 119)
NoStore ==
    [documents |-> <<>>, metadatas |-> <<>>, ids |-> <<>>, added |-> FALSE]

\* main.py lines 56-57: the handler has not answered
NoResponse == <<>>

\* no concurrent request is under way, nothing has been stored and no
\* handler has answered
AuxIdle ==
    /\ invocations = <<>>
    /\ hash_order = <<>>
    /\ store = NoStore
    /\ response = NoResponse

(***************************************************************************)
(* analyze_files, lines 65-76: the result dict as first built.             *)
(***************************************************************************)
InitialResult(n) ==
    [summary |-> "", technologies |-> <<>>, structure |-> "",
     context |-> <<>>, files_analyzed |-> n, main_language |-> <<>>,
     framework |-> <<>>, architecture_type |-> <<>>, complexity_score |-> 0,
     detailed_analysis |-> <<>>]

(***************************************************************************)
(* analyze_files, lines 86-116: one iteration of the scan loop.            *)
(***************************************************************************)
LanguageOf_CaseSensitive(filename) ==
    DictGet(supported_extensions, PathSuffix(filename), "Unknown")

\* lines 91-92
LanguageOf(filename) ==
    DictGet(supported_extensions, Lower(PathSuffix(filename)), "Unknown")

UpdateLanguages_NoGuard(langs, language) ==
    DictSet(langs, language, DictGet(langs, language, 0) + 1)

\* lines 94-95
UpdateLanguages(langs, language) ==
    IF language /= "Unknown"
    THEN DictSet(langs, language, DictGet(langs, language, 0) + 1)
    ELSE langs

\* str.splitlines() drops the empty segment after a final newline
CountLines_SplitLines(content) ==
    LET parts == Split(content, "\n")
    IN  IF parts[Len(parts)] = "" THEN Len(parts) - 1 ELSE Len(parts)

\* line 98
CountLines(content) == Len(Split(content, "\n"))

\* line 101
StructureEntry(filename, language, lines) ==
    filename \o " (" \o language \o ", " \o ToString(lines) \o " lines)"

\* a match that ends the whole detection of the file, not only the pattern
\* loop of its technology: the first matching technology alone is found
Detect_GlobalBreak(catalog, content) ==
    LET folded == Lower(content)
        hits == { u \in 1..Len(catalog) :
                    \E k \in 1..Len(catalog[u][2]) :
                        ReSearch(LowerPat(catalog[u][2][k]), folded) }
    IN  IF hits = {} THEN {}
        ELSE {catalog[CHOOSE u \in hits : \A v \in hits : u <= v][1]}

\* lines 106-110 and 112-116: the names of the catalog with a pattern that
\* re.search finds in the content under re.IGNORECASE (the content is
\* case-folded once for all the patterns)
Detect(catalog, content) ==
    LET folded == Lower(content)
    IN  { catalog[t][1] : t \in
            { u \in 1..Len(catalog) :
                \E k \in 1..Len(catalog[u][2]) :
                    ReSearch(LowerPat(catalog[u][2][k]), folded) } }

\* the names of the first file with a match alone
Accumulate_FirstOnly(found, matched) == IF found = {} THEN matched ELSE found

Accumulate_Replace(found, matched) == IF matched = {} THEN found ELSE matched

\* lines 109 and 115: set.add of every matched name
Accumulate(found, matched) == found \cup matched

(***************************************************************************)
(* analyze_files, lines 118-155: the result assembly.                      *)
(***************************************************************************)
\* max(languages, key=languages.get): the first key of greatest count
RECURSIVE MaxScan(_, _, _)
MaxScan(d, i, best) ==
    IF i > Len(d) THEN d[best][1]
    ELSE MaxScan(d, i + 1, IF d[i][2] > d[best][2] THEN i ELSE best)

RECURSIVE MaxScan_LastWins(_, _, _)
MaxScan_LastWins(d, i, best) ==
    IF i > Len(d) THEN d[best][1]
    ELSE MaxScan_LastWins(d, i + 1, IF d[i][2] >= d[best][2] THEN i ELSE best)

MaxKey_LastWins(d) == MaxScan_LastWins(d, 2, 1)

MaxKey(d) == MaxScan(d, 2, 1)

RECURSIVE Orders(_)
Orders(S) ==
    IF S = {} THEN {<<>>}
    ELSE UNION {{<<x>> \o q : q \in Orders(S \ {x})} : x \in S}

\* list(s) under the iteration order `order`
ListOf(S, order) == SelectSeq(order, LAMBDA x : x \in S)

\* lines 133-134, in thousandths
LinesPerPoint == 1000

MaxScore == 10

ComplexityScore_NoCap(total) == (total * 1000) \div LinesPerPoint

ComplexityScore(total) ==
    LET raw == (total * 1000) \div LinesPerPoint
    IN  IF raw < MaxScore * 1000 THEN raw ELSE MaxScore * 1000

DetermineArchitecture_HtmlOrCss(fws, langs) ==
    LET has_frontend == ({"React", "Vue", "Angular"} \cap fws) /= {}
        has_backend == ({"Express", "Django", "Flask", "FastAPI", "Spring",
                         "Laravel", "Rails"} \cap fws) /= {}
    IN  IF has_frontend /\ has_backend THEN "Full-stack"
        ELSE IF has_frontend THEN "Frontend"
        ELSE IF has_backend THEN "Backend"
        ELSE IF DictHas(langs, "HTML") \/ DictHas(langs, "CSS")
             THEN "Static Website"
        ELSE "Unknown"

\* _determine_architecture, lines 187-205
DetermineArchitecture(fws, langs) ==
    LET frontend_frameworks == {"React", "Vue", "Angular"}
        backend_frameworks == {"Express", "Django", "Flask", "FastAPI",
                               "Spring", "Laravel", "Rails"}
        has_frontend == (frontend_frameworks \cap fws) /= {}
        has_backend == (backend_frameworks \cap fws) /= {}
    IN  IF has_frontend /\ has_backend THEN "Full-stack"
        ELSE IF has_frontend THEN "Frontend"
        ELSE IF has_backend THEN "Backend"
        ELSE IF DictHas(langs, "HTML") /\ DictHas(langs, "CSS")
             THEN "Static Website"
        ELSE "Unknown"

\* str(x) of an Optional[str] inside an f-string
Str(opt) == IF opt = <<>> THEN "None" ELSE opt[1]

\* _generate_summary, lines 207-234
GenerateSummary(analysis) ==
    LET main_lang == RecGet(analysis, "main_language", <<"Unknown">>)
        framework == RecGet(analysis, "framework", <<"No specific framework">>)
        arch_type == RecGet(analysis, "architecture_type", <<"Unknown">>)
        file_count == RecGet(analysis, "files_analyzed", 0)
        techs == RecGet(analysis, "technologies", <<>>)
        complexity == RecGet(analysis, "complexity_score", 0)
        s1 == "This is a " \o Lower(Str(arch_type))
                 \o " project primarily written in " \o Str(main_lang)
        s2 == IF framework /= <<"No specific framework">>
              THEN s1 \o " using the " \o Str(framework) \o " framework"
              ELSE s1
        s3 == s2 \o ". The project contains " \o ToString(file_count)
                 \o " files"
        s4 == IF techs /= <<>>
              THEN s3 \o " and uses technologies including "
                      \o Join(", ", SubSeq(techs, 1,
                                 IF Len(techs) < 5 THEN Len(techs) ELSE 5))
              ELSE s3
    IN  IF complexity < 2 * 1000
        THEN s4 \o ". This appears to be a small to medium-sized project."
        ELSE IF complexity < 5 * 1000
        THEN s4 \o ". This appears to be a medium-sized project."
        ELSE s4 \o ". This appears to be a large and complex project."

(***************************************************************************)
(* _generate_detailed_analysis and the six aspect analyzers, lines         *)
(* 262-467 and 560-625.  Every loop over the files appends to its lists in *)
(* input order: the operators <X>Of give what one file appends, and the    *)
(* analyzers concatenate these over the files they are handed.             *)
(***************************************************************************)
\* lines 275-282: the bucket tests, on the lower-cased name
PassesTest(bucket, filename) ==
    CASE bucket = "frontend" ->
            AnyIn(<<".jsx", ".tsx", ".vue", ".html", ".css", ".scss">>, filename)
      [] bucket = "backend" ->
            AnyIn(<<".py", ".java", ".php", ".rb", ".go", ".cs">>, filename)
      [] bucket = "database" ->
            \/ AnyIn(<<".sql", ".db">>, filename)
            \/ StrIn("database", filename)
            \/ StrIn("model", filename)
      [] bucket = "config" ->
            AnyIn(<<".json", ".yaml", ".yml", ".toml", ".ini", ".env">>,
                  filename)

\* the tests in another order: backend before frontend
BucketOf_BackendFirst(file_info) ==
    LET filename == Lower(file_info.name)
    IN  IF PassesTest("backend", filename) THEN "backend"
        ELSE IF PassesTest("frontend", filename) THEN "frontend"
        ELSE IF PassesTest("database", filename) THEN "database"
        ELSE IF PassesTest("config", filename) THEN "config"
        ELSE "none"

\* lines 272-282: the if/elif chain of one file
BucketOf(file_info) ==
    LET filename == Lower(file_info.name)
    IN  IF PassesTest("frontend", filename) THEN "frontend"
        ELSE IF PassesTest("backend", filename) THEN "backend"
        ELSE IF PassesTest("database", filename) THEN "database"
        ELSE IF PassesTest("config", filename) THEN "config"
        ELSE "none"

\* lines 299-313: what one file adds to key_files and entry_points
OverviewOf(file_info) ==
    LET filename == file_info.name
        content == file_info.content
    IN  [key_files |->
            IF AnyIn(<<"main", "index", "app", "server", "package.json",
                       "requirements.txt">>, Lower(filename))
            THEN << [name |-> filename,
                     purpose |-> IdentifyFilePurpose(filename, content),
                     lines |-> CountLines(content)] >>
            ELSE <<>>,
         entry_points |->
            IF \/ StrIn("main(", content)
               \/ StrIn("if __name__", content)
               \/ StrIn("app.listen", content)
            THEN <<filename>> ELSE <<>>]

\* lines 330-357: what one file of the frontend bucket adds; the classes of
\* a stylesheet are kept as the set that list(set(classes)) lists
FrontendOf(file_info) ==
    LET filename == file_info.name
        content == file_info.content
    IN  [components |->
            IF AnyIn(<<".jsx", ".tsx", ".vue">>, filename)
            THEN << [name |-> filename, type |-> "Component",
                     exports |-> ExtractExports(content),
                     imports |-> ExtractImports(content)] >>
            ELSE <<>>,
         styles |->
            IF AnyIn(<<".css", ".scss", ".sass">>, filename)
            THEN << [name |-> filename, type |-> "Stylesheet",
                     classes |-> ExtractCssClasses(content)] >>
            ELSE <<>>,
         routing |->
            IF StrIn("router", Lower(content)) \/ StrIn("route", Lower(content))
            THEN <<filename>> ELSE <<>>,
         state_management |->
            IF AnyIn(<<"usestate", "redux", "vuex", "context">>, Lower(content))
            THEN <<filename>> ELSE <<>>]

\* lines 374-395: what one file of the backend bucket adds
BackendOf(file_info) ==
    LET filename == file_info.name
        content == file_info.content
        endpoints == ExtractApiEndpoints(content)
    IN  [apis |->
            IF endpoints /= <<>>
            THEN << [file |-> filename, endpoints |-> endpoints] >>
            ELSE <<>>,
         models |->
            IF StrIn("model", Lower(filename)) \/ StrIn("schema", Lower(filename))
            THEN << [file |-> filename, models |-> ExtractModels(content)] >>
            ELSE <<>>,
         middleware |->
            IF StrIn("middleware", Lower(content))
                  \/ StrIn("@app.middleware", content)
            THEN <<filename>> ELSE <<>>]

\* lines 411-422: what one file of the database bucket adds
DatabaseOf(file_info) ==
    LET filename == file_info.name
        content == file_info.content
    IN  [schemas |->
            IF StrIn(".sql", filename)
            THEN << [file |-> filename, tables |-> ExtractSqlTables(content)] >>
            ELSE <<>>,
         migrations |->
            IF StrIn("migration", Lower(filename)) THEN <<filename>> ELSE <<>>]

\* every keyword of the name adding its layer
ArchitectureOf_AllLayers(file_info) ==
    LET filename == Lower(file_info.name)
    IN  [pattern_keys |->
            {key \in {"controller", "service", "repository"} :
                StrIn(key, filename)},
         layer |->
            (IF StrIn("controller", filename)
             THEN <<"Controller Layer">> ELSE <<>>)
            \o (IF StrIn("service", filename)
                THEN <<"Service Layer">> ELSE <<>>)
            \o (IF StrIn("model", filename) \/ StrIn("entity", filename)
                THEN <<"Data Layer">> ELSE <<>>)]

\* what the name of one file adds in _analyze_architecture: the name
\* keywords of the patterns (lines 437-442) and the layer (lines 445-452)
ArchitectureOf(file_info) ==
    LET filename == Lower(file_info.name)
    IN  [pattern_keys |->
            {key \in {"controller", "service", "repository"} :
                StrIn(key, filename)},
         layer |->
            IF StrIn("controller", filename) THEN <<"Controller Layer">>
            ELSE IF StrIn("service", filename) THEN <<"Service Layer">>
            ELSE IF StrIn("model", filename) \/ StrIn("entity", filename)
            THEN <<"Data Layer">>
            ELSE <<>>]

\* the component test on the lower-cased name, as the bucket tests are
FlowOf_LowersName(file_info) ==
    [data_flow |-> <<>>,
     request_flow |-> <<>>,
     component |->
        IF AnyIn(<<".jsx", ".tsx", ".vue">>, Lower(file_info.name))
        THEN <<file_info.name>> ELSE <<>>]

\* what one file adds in the flow analyzers: the data-flow tags (lines
\* 587-594), the request-flow tags (lines 602-609) and the component file
\* (lines 618-620)
FlowOf(file_info) ==
    LET content == file_info.content
    IN  [data_flow |->
            (IF StrIn("fetch(", content) \/ StrIn("axios", content)
             THEN <<"HTTP API calls">> ELSE <<>>)
            \o (IF StrIn("useState", content) \/ StrIn("state", content)
                THEN <<"State management">> ELSE <<>>)
            \o (IF StrIn("props", content)
                THEN <<"Component props">> ELSE <<>>),
         request_flow |->
            (IF StrIn("@app.route", content) \/ StrIn("@router", content)
             THEN <<"Route handling">> ELSE <<>>)
            \o (IF StrIn("middleware", Lower(content))
                THEN <<"Middleware processing">> ELSE <<>>)
            \o (IF StrIn("authenticate", Lower(content))
                      \/ StrIn("auth", Lower(content))
                THEN <<"Authentication">> ELSE <<>>),
         component |->
            IF AnyIn(<<".jsx", ".tsx", ".vue">>, file_info.name)
            THEN <<file_info.name>> ELSE <<>>]

\* the operators above, tabulated over the file records of the inputs
FileFacts ==
    [f \in InputFiles |->
        [bucket |-> BucketOf(f),
         overview |-> OverviewOf(f),
         frontend |-> FrontendOf(f),
         backend |-> BackendOf(f),
         database |-> DatabaseOf(f),
         layer |-> ArchitectureOf(f).layer,
         pattern_keys |-> ArchitectureOf(f).pattern_keys,
         data_flow |-> FlowOf(f).data_flow,
         request_flow |-> FlowOf(f).request_flow,
         component |-> FlowOf(f).component,
         lines |-> CountLines(f.content)]]

\* the concatenation, over the files, of what each file adds
Gather(files, Added(_)) == Concat([k \in 1..Len(files) |-> Added(files[k])])

\* lines 265-282
Categorize(files, facts) ==
    LET InBucket(bucket) ==
            SelectSeq(files, LAMBDA f : facts[f].bucket = bucket)
    IN  [frontend_files |-> InBucket("frontend"),
         backend_files |-> InBucket("backend"),
         database_files |-> InBucket("database"),
         config_files |-> InBucket("config")]

\* _determine_project_type, lines 560-569
DetermineProjectType(fws, langs) ==
    IF fws \cap {"React", "Vue", "Angular"} /= {} THEN "Frontend Application"
    ELSE IF fws \cap {"Django", "Flask", "FastAPI", "Express"} /= {}
    THEN "Backend API"
    ELSE IF DictHas(langs, "HTML") /\ DictHas(langs, "CSS")
    THEN "Web Application"
    ELSE "Software Project"

RECURSIVE SumSeq(_)
SumSeq(q) == IF Len(q) = 0 THEN 0 ELSE Head(q) + SumSeq(Tail(q))

\* the levels with their upper ends included
ComplexityLevel_Inclusive(total) ==
    IF total <= 1000 THEN "Low"
    ELSE IF total <= 5000 THEN "Medium"
    ELSE "High"

\* line 580
ComplexityLevel(total) ==
    IF total < 1000 THEN "Low"
    ELSE IF total < 5000 THEN "Medium"
    ELSE "High"

\* the quotient taken without the test for an empty file list
GetComplexityIndicators_NoGuard(files, facts) ==
    LET total_files == Len(files)
        total == SumSeq([k \in 1..Len(files) |-> facts[files[k]].lines])
    IN  IF total_files = 0 THEN [raised |-> "ZeroDivisionError"]
        ELSE [total_files |-> total_files,
              total_lines |-> total,
              avg_lines_per_file |-> total \div total_files,
              complexity_level |-> ComplexityLevel(total)]

\* the newlines of the contents counted in place of their lines
GetComplexityIndicators_Newlines(files, facts) ==
    LET total_files == Len(files)
        total == SumSeq([k \in 1..Len(files) |-> facts[files[k]].lines - 1])
    IN  [total_files |-> total_files,
         total_lines |-> total,
         avg_lines_per_file |->
            IF total_files > 0 THEN total \div total_files ELSE 0,
         complexity_level |-> ComplexityLevel(total)]

\* _get_complexity_indicators, lines 571-581
GetComplexityIndicators(files, facts) ==
    LET total_files == Len(files)
        total == SumSeq([k \in 1..Len(files) |-> facts[files[k]].lines])
    IN  [total_files |-> total_files,
         total_lines |-> total,
         avg_lines_per_file |->
            IF total_files > 0 THEN total \div total_files ELSE 0,
         complexity_level |-> ComplexityLevel(total)]

\* _analyze_overview, lines 293-320
AnalyzeOverview(files, langs, fws, dbs, facts) ==
    [key_files |-> Gather(files, LAMBDA f : facts[f].overview.key_files),
     entry_points |->
        Gather(files, LAMBDA f : facts[f].overview.entry_points),
     project_type |-> DetermineProjectType(fws, langs),
     complexity_indicators |-> GetComplexityIndicators(files, facts)]

\* _analyze_frontend, lines 322-365
AnalyzeFrontend(frontend_files, fws, order, class_order, facts) ==
    [components |->
        Gather(frontend_files, LAMBDA f : facts[f].frontend.components),
     styles |->
        Gather(frontend_files,
               LAMBDA f : [m \in 1..Len(facts[f].frontend.styles) |->
                              [facts[f].frontend.styles[m] EXCEPT
                                  !.classes = ListOf(@, class_order)]]),
     routing_files |->
        Gather(frontend_files, LAMBDA f : facts[f].frontend.routing),
     state_management |->
        Gather(frontend_files,
               LAMBDA f : facts[f].frontend.state_management),
     frameworks_used |->
        ListOf(fws \cap {"React", "Vue", "Angular"}, order)]

\* _analyze_backend, lines 367-403
AnalyzeBackend(backend_files, fws, dbs, order, facts) ==
    [api_files |-> Gather(backend_files, LAMBDA f : facts[f].backend.apis),
     models |-> Gather(backend_files, LAMBDA f : facts[f].backend.models),
     middleware |->
        Gather(backend_files, LAMBDA f : facts[f].backend.middleware),
     frameworks_used |->
        ListOf(fws \cap {"Django", "Flask", "FastAPI", "Express", "Spring"},
               order),
     databases_used |-> ListOf(dbs, order)]

\* _analyze_database, lines 405-428
AnalyzeDatabase(database_files, dbs, order, facts) ==
    [schemas |->
        Gather(database_files, LAMBDA f : facts[f].database.schemas),
     migrations |->
        Gather(database_files, LAMBDA f : facts[f].database.migrations),
     databases_detected |-> ListOf(dbs, order)]

\* lines 437-442: the patterns, in the order of the three tests
ArchitecturePatterns(files, facts) ==
    LET keys == UNION {facts[files[k]].pattern_keys : k \in 1..Len(files)}
    IN  (IF "controller" \in keys THEN <<"MVC">> ELSE <<>>)
        \o (IF "service" \in keys THEN <<"Service Layer">> ELSE <<>>)
        \o (IF "repository" \in keys THEN <<"Repository Pattern">> ELSE <<>>)

\* lines 445-452
ArchitectureLayers(files, facts) == Gather(files, LAMBDA f : facts[f].layer)

\* _analyze_architecture, lines 430-458
AnalyzeArchitecture(files, fws, langs, pattern_order, layer_order, facts) ==
    LET patterns == ArchitecturePatterns(files, facts)
        layers == ArchitectureLayers(files, facts)
    IN  [patterns |-> ListOf(SeqToSet(patterns), pattern_order),
         layers |-> ListOf(SeqToSet(layers), layer_order),
         separation_of_concerns |-> Cardinality(SeqToSet(layers)) > 1]

DataFlows(files, facts) == Gather(files, LAMBDA f : facts[f].data_flow)

RequestFlows(files, facts) == Gather(files, LAMBDA f : facts[f].request_flow)

\* the tags as the loop collected them
AnalyzeDataFlow_NoDedup(files, flow_order, facts) == DataFlows(files, facts)

\* _analyze_data_flow, lines 583-596
AnalyzeDataFlow(files, flow_order, facts) ==
    ListOf(SeqToSet(DataFlows(files, facts)), flow_order)

\* _analyze_request_flow, lines 598-611
AnalyzeRequestFlow(files, flow_order, facts) ==
    ListOf(SeqToSet(RequestFlows(files, facts)), flow_order)

\* _analyze_component_hierarchy, lines 613-625
AnalyzeComponentHierarchy(files, facts) ==
    LET components == Gather(files, LAMBDA f : facts[f].component)
    IN  [total_components |-> Len(components),
         component_files |->
            SubSeq(components, 1,
                   IF Len(components) < 10 THEN Len(components) ELSE 10)]

\* _analyze_flow, lines 460-467
AnalyzeFlow(files, fws, data_order, request_order, facts) ==
    [data_flow |-> AnalyzeDataFlow(files, data_order, facts),
     request_flow |-> AnalyzeRequestFlow(files, request_order, facts),
     component_hierarchy |-> AnalyzeComponentHierarchy(files, facts)]

\* the iteration orders of the sets the analyzers turn into lists: one
\* order for each of the class names, the patterns, the layers and the two
\* groups of flow tags of an input
AspectOrders(files, facts) ==
    LET styles == Gather(Categorize(files, facts).frontend_files,
                         LAMBDA f : facts[f].frontend.styles)
    IN  { [classes |-> c, patterns |-> p, layers |-> l, data_flow |-> d,
           request_flow |-> r] :
            c \in Orders(UNION {styles[k].classes : k \in 1..Len(styles)}),
            p \in Orders(SeqToSet(ArchitecturePatterns(files, facts))),
            l \in Orders(SeqToSet(ArchitectureLayers(files, facts))),
            d \in Orders(SeqToSet(DataFlows(files, facts))),
            r \in Orders(SeqToSet(RequestFlows(files, facts))) }

\* the frontend, backend and database analyzers handed every file
GenerateDetailedAnalysis_InputFiles(files, langs, fws, dbs, order, orders, facts) ==
    [overview |-> AnalyzeOverview(files, langs, fws, dbs, facts),
     frontend |-> AnalyzeFrontend(files, fws, order, orders.classes, facts),
     backend |-> AnalyzeBackend(files, fws, dbs, order, facts),
     database |-> AnalyzeDatabase(files, dbs, order, facts),
     architecture |->
        AnalyzeArchitecture(files, fws, langs, orders.patterns,
                            orders.layers, facts),
     flow |-> AnalyzeFlow(files, fws, orders.data_flow,
                          orders.request_flow, facts)]

\* _generate_detailed_analysis, lines 262-291
GenerateDetailedAnalysis(files, langs, fws, dbs, order, orders, facts) ==
    LET b == Categorize(files, facts)
    IN  [overview |-> AnalyzeOverview(files, langs, fws, dbs, facts),
         frontend |->
            AnalyzeFrontend(b.frontend_files, fws, order, orders.classes,
                            facts),
         backend |-> AnalyzeBackend(b.backend_files, fws, dbs, order, facts),
         database |-> AnalyzeDatabase(b.database_files, dbs, order, facts),
         architecture |->
            AnalyzeArchitecture(files, fws, langs, orders.patterns,
                                orders.layers, facts),
         flow |-> AnalyzeFlow(files, fws, orders.data_flow,
                              orders.request_flow, facts)]

BuildTechnologies_NoDedup(langs, fw_list, db_list, order) ==
    DictKeys(langs) \o fw_list \o db_list

\* lines 127-128: list(set(technologies))
BuildTechnologies(langs, fw_list, db_list, order) ==
    ListOf(SeqToSet(DictKeys(langs) \o fw_list \o db_list), order)

\* lines 118-155 under the iteration order `order` of the technology sets
\* and the iteration orders `orders` of the sets of the aspect analyzers
Assemble(result, files, langs, fws, dbs, structure, total, order, orders, facts) ==
    LET fw_list == ListOf(fws, order)
        db_list == ListOf(dbs, order)
        r1 == [result EXCEPT
                 !.main_language =
                     IF langs /= <<>> THEN <<MaxKey(langs)>> ELSE @,
                 !.framework =
                     IF fws /= {} THEN <<fw_list[1]>> ELSE @,
                 !.technologies =
                     BuildTechnologies(langs, fw_list, db_list, order),
                 !.structure = Join("\n", structure),
                 !.complexity_score = ComplexityScore(total),
                 !.architecture_type = <<DetermineArchitecture(fws, langs)>>]
        r2 == [r1 EXCEPT !.summary = GenerateSummary(r1)]
    IN  [r2 EXCEPT
           !.detailed_analysis =
               GenerateDetailedAnalysis(files, langs, fws, dbs, order, orders,
                                        facts),
           !.context = [files |-> files, languages |-> langs,
                        frameworks |-> fw_list, databases |-> db_list,
                        total_lines |-> total, file_count |-> Len(files)]]

(***************************************************************************)
(* The state machine.  pc is the position of the one request:              *)
(*   "call"      the entry point has not started                           *)
(*   "scan"      inside analyze_files, idx files scanned                   *)
(*   "analyzed"  analyze_files has returned to analyze_repository          *)
(*   "returned"  the result is with the caller                             *)
(***************************************************************************)
UploadInputs(n) == SeqsUpTo(SampleFiles, n)

RepoInputs(n) ==
    { RepoData(q, m) : q \in {u \in SeqsUpTo(SampleFiles, n) : DistinctNames(u)},
                       m \in BOOLEAN }

InitWith(uploads, repos) ==
    /\ \/ /\ entry = "analyze_files"
          /\ file_contents \in uploads
          /\ repo_data = NoRepo
       \/ /\ entry = "analyze_repository"
          /\ file_contents = <<>>
          /\ repo_data \in repos
    /\ pc = "call"
    /\ idx = 0
    /\ languages = <<>>
    /\ frameworks = {}
    /\ databases = {}
    /\ file_structure = <<>>
    /\ total_lines = 0
    /\ analysis_result = NoResult
    /\ runs = 1
    /\ prev_result = NoResult
    /\ buckets = NoBuckets
    /\ AuxIdle

Init == InitWith(UploadInputs(MaxFiles), RepoInputs(MaxRepoFiles))

\* analyze_files, lines 62-84: the result dict and the empty accumulators
EnterAnalyzeFiles(files) ==
    /\ analysis_result' = InitialResult(Len(files))
    /\ idx' = 0
    /\ languages' = <<>>
    /\ frameworks' = {}
    /\ databases' = {}
    /\ file_structure' = <<>>
    /\ total_lines' = 0
    /\ pc' = "scan"

CallAnalyzeFiles ==
    /\ pc = "call"
    /\ entry = "analyze_files"
    /\ EnterAnalyzeFiles(file_contents)
    /\ UNCHANGED aux
    /\ UNCHANGED <<entry, repo_data, file_contents, runs, prev_result, buckets>>

\* analyze_repository, lines 159-172
CallAnalyzeRepository ==
    /\ pc = "call"
    /\ entry = "analyze_repository"
    /\ LET files == RecGet(repo_data, "files", <<>>)
           converted == [i \in 1..Len(files) |->
                            [name |-> files[i][1], content |-> files[i][2],
                             type |-> GuessType(files[i][1])]]
       IN  /\ file_contents' = converted
           /\ EnterAnalyzeFiles(converted)
    /\ UNCHANGED aux
    /\ UNCHANGED <<entry, repo_data, runs, prev_result, buckets>>

\* lines 97-98 and 103-116 tabulated over the contents of the inputs
Detected ==
    [c \in {f.content : f \in InputFiles} |->
        [frameworks |-> Detect(framework_patterns, c),
         databases |-> Detect(database_patterns, c),
         lines |-> CountLines(c)]]

\* analyze_files, lines 86-116
ScanFile ==
    /\ pc = "scan"
    /\ idx < Len(file_contents)
    /\ LET file_info == file_contents[idx + 1]
           filename == file_info.name
           content == file_info.content
           language == LanguageOf(filename)
           lines == Detected[content].lines
       IN  /\ languages' = UpdateLanguages(languages, language)
           /\ total_lines' = total_lines + lines
           /\ file_structure' =
                 Append(file_structure, StructureEntry(filename, language, lines))
           /\ frameworks' = Accumulate(frameworks, Detected[content].frameworks)
           /\ databases' = Accumulate(databases, Detected[content].databases)
    /\ idx' = idx + 1
    /\ UNCHANGED aux
    /\ UNCHANGED <<entry, repo_data, file_contents, pc, analysis_result,
                   runs, prev_result, buckets>>

\* the categorization loop storing the lower-cased name back into the record
AssembleResult_LowersNames ==
    /\ pc = "scan"
    /\ idx = Len(file_contents)
    /\ \E facts \in {FileFacts} :
          /\ \E order \in Orders(DictKeySet(languages) \cup frameworks
                                   \cup databases),
                orders \in AspectOrders(file_contents, facts) :
                analysis_result' =
                    Assemble(analysis_result, file_contents, languages,
                             frameworks, databases, file_structure,
                             total_lines, order, orders, facts)
          /\ buckets' = Categorize(file_contents, facts)
    /\ file_contents' =
          [k \in 1..Len(file_contents) |->
              [file_contents[k] EXCEPT !.name = Lower(@)]]
    /\ pc' = IF entry = "analyze_repository" THEN "analyzed" ELSE "returned"
    /\ UNCHANGED aux
    /\ UNCHANGED <<entry, repo_data, idx, languages, frameworks,
                   databases, file_structure, total_lines, runs, prev_result>>

\* analyze_files, lines 118-157
AssembleResult ==
    /\ pc = "scan"
    /\ idx = Len(file_contents)
    /\ \E facts \in {FileFacts} :
          /\ \E order \in Orders(DictKeySet(languages) \cup frameworks
                                   \cup databases),
                orders \in AspectOrders(file_contents, facts) :
                analysis_result' =
                    Assemble(analysis_result, file_contents, languages,
                             frameworks, databases, file_structure,
                             total_lines, order, orders, facts)
          /\ buckets' = Categorize(file_contents, facts)
    /\ pc' = IF entry = "analyze_repository" THEN "analyzed" ELSE "returned"
    /\ UNCHANGED aux
    /\ UNCHANGED <<entry, repo_data, file_contents, idx, languages, frameworks,
                   databases, file_structure, total_lines, runs, prev_result>>

\* analyze_repository, lines 174-185
AddRepositoryInfo ==
    /\ pc = "analyzed"
    /\ LET repository ==
              [url |-> RecGet(repo_data, "url", <<>>),
               name |-> RecGet(repo_data, "name", <<>>),
               description |-> RecGet(repo_data, "description", <<>>),
               stars |-> RecGet(repo_data, "stars", 0),
               forks |-> RecGet(repo_data, "forks", 0),
               language |-> RecGet(repo_data, "language", <<>>),
               topics |-> RecGet(repo_data, "topics", <<>>)]
       IN  analysis_result' =
              [analysis_result EXCEPT
                 !.context = @ @@ [repository |-> repository]]
    /\ pc' = "returned"
    /\ UNCHANGED aux
    /\ UNCHANGED <<entry, repo_data, file_contents, idx, languages, frameworks,
                   databases, file_structure, total_lines, runs, prev_result, buckets>>

Next ==
    \/ CallAnalyzeFiles
    \/ CallAnalyzeRepository
    \/ ScanFile
    \/ AssembleResult
    \/ AddRepositoryInfo

Spec == Init /\ [][Next]_vars

(***************************************************************************)
(* Re-running the analysis of an unchanged input (a second request, or the *)
(* same request after a restart of the service): the earlier result is     *)
(* kept in prev_result for comparison.                                     *)
(***************************************************************************)
Rerun ==
    /\ pc = "returned"
    /\ runs < MaxRuns
    /\ prev_result' = analysis_result
    /\ runs' = runs + 1
    /\ pc' = "call"
    /\ UNCHANGED aux
    /\ UNCHANGED <<entry, repo_data, file_contents, idx, languages, frameworks,
                   databases, file_structure, total_lines, analysis_result, buckets>>

InitRerun == InitWith(UploadInputs(MaxRerunFiles), RepoInputs(MaxRepoFiles))

NextRerun == Next \/ Rerun

RerunSpec == InitRerun /\ [][NextRerun]_vars

(***************************************************************************)
(* The scan loop alone (lines 86-116), over the files of DetectionFiles.   *)
(***************************************************************************)
MaxScanFiles == 3

InitScan == InitWith(SeqsUpTo(DetectionFiles, MaxScanFiles), {})

NextScan == CallAnalyzeFiles \/ ScanFile

ScanSpec == InitScan /\ [][NextScan]_vars

(***************************************************************************)
(* analyze_files over the files of AspectFiles, for the aspect analyzers.  *)
(***************************************************************************)
MaxAspectFiles == 3

InitAspect == InitWith(SeqsUpTo(AspectFiles, MaxAspectFiles), {})

NextAspect == CallAnalyzeFiles \/ ScanFile \/ AssembleResult

AspectSpec == InitAspect /\ [][NextAspect]_vars

(***************************************************************************)
(* analyze_files over the files of RouteFiles, for the route extraction.   *)
(***************************************************************************)
MaxRouteFiles == 2

InitRoute == InitWith(SeqsUpTo(RouteFiles, MaxRouteFiles), {})

RouteSpec == InitRoute /\ [][NextAspect]_vars

(***************************************************************************)
(* analyze_files over lists of the files of DetailFiles, for the figures   *)
(* of the detailed analysis: up to MaxBlocks copies of the long file and   *)
(* up to MaxTailFiles shorter ones, up to MaxLayerFiles of the layer       *)
(* files, up to MaxFlowFiles of the flow files, and up to                  *)
(* MaxComponentFiles component files taken in turn.                        *)
(***************************************************************************)
MaxBlocks == 40

MaxTailFiles == 2

MaxLayerFiles == 2

MaxFlowFiles == 2

MaxComponentFiles == 16

DetailInputs ==
    LET block == CHOOSE f \in DetailFiles.lines : f.name = "block.dat"
        name(k) == <<"A.jsx", "B.tsx", "Upper.VUE", "C.vue">>[(k % 4) + 1]
        turn(k) == CHOOSE f \in DetailFiles.components : f.name = name(k)
    IN  { [i \in 1..k |-> block] \o tail :
             k \in 0..MaxBlocks,
             tail \in SeqsUpTo(DetailFiles.lines \ {block}, MaxTailFiles) }
        \cup SeqsUpTo(DetailFiles.layers, MaxLayerFiles)
        \cup SeqsUpTo(DetailFiles.flows, MaxFlowFiles)
        \cup { [i \in 1..n |-> turn(i + shift)] :
                  n \in 0..MaxComponentFiles, shift \in 0..3 }

InitDetail == InitWith(DetailInputs, {})

DetailSpec == InitDetail /\ [][NextAspect]_vars

(***************************************************************************)
(* The complexity scorer (line 134) as a function of the total line count, *)
(* applied to totals up to MaxLineSteps * LineStep lines, two totals in a   *)
(* row.                                                                    *)
(***************************************************************************)
LineTotals ==
    {k * LineStep : k \in 0..MaxLineSteps}
        \cup {1, 999, 1001, 1999, 2001, 4999, 5001, 9999, 10001}

InitScore ==
    /\ entry = "analyze_files"
    /\ repo_data = NoRepo
    /\ file_contents = <<>>
    /\ pc = "score"
    /\ idx = 0
    /\ languages = <<>>
    /\ frameworks = {}
    /\ databases = {}
    /\ file_structure = <<>>
    /\ total_lines \in LineTotals
    /\ analysis_result = InitialResult(0)
    /\ runs = 1
    /\ prev_result = NoResult
    /\ buckets = NoBuckets
    /\ AuxIdle

ScoreLines ==
    /\ pc = "score"
    /\ analysis_result' =
          [analysis_result EXCEPT !.complexity_score = ComplexityScore(total_lines)]
    /\ pc' = "scored"
    /\ UNCHANGED aux
    /\ UNCHANGED <<entry, repo_data, file_contents, idx, languages, frameworks,
                   databases, file_structure, total_lines, runs, prev_result, buckets>>

NextTotal ==
    /\ pc = "scored"
    /\ runs < MaxRuns
    /\ prev_result' = [total_lines |-> total_lines,
                       complexity_score |-> analysis_result.complexity_score]
    /\ total_lines' \in LineTotals
    /\ analysis_result' = InitialResult(0)
    /\ runs' = runs + 1
    /\ pc' = "score"
    /\ UNCHANGED aux
    /\ UNCHANGED <<entry, repo_data, file_contents, idx, languages, frameworks,
                   databases, file_structure, buckets>>

NextScore == ScoreLines \/ NextTotal

ScoreSpec == InitScore /\ [][NextScore]_vars

(***************************************************************************)
(* The architecture inferrer (_determine_architecture) as a function of    *)
(* the framework set and the language histogram: every set of catalog      *)
(* frameworks, with every histogram over HTML, CSS and one other language. *)
(***************************************************************************)
FrameworkNames == {framework_patterns[i][1] : i \in 1..Len(framework_patterns)}

Histograms ==
    { [i \in 1..Len(q) |-> <<q[i], 1>>] :
        q \in {u \in SeqsUpTo({"HTML", "CSS", "Python"}, 3) :
                  \A i, j \in 1..Len(u) : u[i] = u[j] => i = j} }

InitArch ==
    /\ entry = "analyze_files"
    /\ repo_data = NoRepo
    /\ file_contents = <<>>
    /\ pc = "infer"
    /\ idx = 0
    /\ languages \in Histograms
    /\ frameworks \in SUBSET FrameworkNames
    /\ databases = {}
    /\ file_structure = <<>>
    /\ total_lines = 0
    /\ analysis_result = InitialResult(0)
    /\ runs = 1
    /\ prev_result = NoResult
    /\ buckets = NoBuckets
    /\ AuxIdle

\* analyze_files, line 137
InferArchitecture ==
    /\ pc = "infer"
    /\ analysis_result' =
          [analysis_result EXCEPT
             !.architecture_type = <<DetermineArchitecture(frameworks, languages)>>]
    /\ pc' = "inferred"
    /\ UNCHANGED aux
    /\ UNCHANGED <<entry, repo_data, file_contents, idx, languages, frameworks,
                   databases, file_structure, total_lines, runs, prev_result, buckets>>

NextArch == InferArchitecture

ArchSpec == InitArch /\ [][NextArch]_vars

(***************************************************************************)
(* VectorStore.store_project_data, vector_store.py lines 58-129, as a      *)
(* function of the analysis result it is given.  pc is its position:       *)
(*   "store"  the batch is empty            "files"  idx files looked at   *)
(*   "add"    the batch is built            "stored" the method returned   *)
(***************************************************************************)
\* line 100: files[:50]
FileLimit == 50

\* line 107: content[:2000]
ContentLimit == 2000

\* line 106: len(content.strip()) > 50
MeaningfulLength == 50

MaxStoreFiles == 52

\* contents around the two limits: short, of 50 and of 51 characters inside
\* surrounding whitespace, of 2000, of 2001 and of 2500 characters
StoreContents ==
    << "x = 1",
       "  \n" \o Repeat("a", MeaningfulLength) \o "\t \n",
       " " \o Repeat("b", MeaningfulLength + 1) \o "\n",
       Repeat("c", ContentLimit),
       Repeat("d", ContentLimit) \o "e",
       Repeat("f g\n", 625) >>

\* n files whose contents run through the contents above from `shift` on
StoreFiles(n, shift) ==
    [k \in 1..n |->
        File("f" \o ToString(k) \o ".py",
             StoreContents[((k + shift) % Len(StoreContents)) + 1],
             IF k % 2 = 0 THEN <<"text/x-python">> ELSE <<>>)]

\* analysis results as analyze_files returns them, and one without a
\* structure text
StoreInputs ==
    { [summary |-> "This is a Monolithic Application project.",
       technologies |-> techs, structure |-> structure,
       context |-> [files |-> StoreFiles(n, shift)],
       files_analyzed |-> n, main_language |-> <<"Python">>,
       framework |-> <<>>, architecture_type |-> <<"Monolithic Application">>,
       complexity_score |-> 0, detailed_analysis |-> <<>>] :
        n \in {0, 1, 7, FileLimit - 1, FileLimit, FileLimit + 1, MaxStoreFiles},
        shift \in 0..(Len(StoreContents) - 1),
        structure \in {"", "f1.py (Python, 1 lines)"},
        techs \in {<<>>, <<"Python", "Flask">>} }

\* str.strip() of line 106
Strip(s) ==
    LET inked == {i \in 1..Len(s) :
                     Char(s, i) \notin {" ", "\t", "\n", "\r", "\f"}}
    IN  IF inked = {} THEN ""
        ELSE SubSeq(s, CHOOSE i \in inked : \A j \in inked : i <= j,
                       CHOOSE i \in inked : \A j \in inked : j <= i)

\* content[:2000] of line 107
StoredContent_Uncut(content) == content

StoredContent(content) ==
    SubSeq(content, 1,
           IF Len(content) < ContentLimit THEN Len(content) ELSE ContentLimit)

\* lines 106-107 tabulated over the contents above
StoreFacts ==
    [c \in SeqToSet(StoreContents) \cup {f.content : f \in SampleFiles} |->
        [meaningful |-> Len(Strip(c)) > MeaningfulLength,
         stored |-> StoredContent(c)]]

\* files[:50] of line 100
FirstFiles_All(files) == files

FirstFiles(files) ==
    SubSeq(files, 1, IF Len(files) < FileLimit THEN Len(files) ELSE FileLimit)

\* uuid.uuid4(): the n-th identifier generated for a batch; the identifiers
\* it generates are taken to differ from one another
Uuid4(n) == ToString(n)

\* json.dumps of a list of plain strings
JsonDumps(q) ==
    "[" \o Join(", ", [k \in 1..Len(q) |-> "\"" \o q[k] \o "\""]) \o "]"

AddRecord(batch, document, metadata, prefix) ==
    [batch EXCEPT
       !.documents = Append(@, document),
       !.metadatas = Append(@, metadata),
       !.ids = Append(@, prefix \o Uuid4(Len(batch.ids) + 1))]

InitStore ==
    /\ entry = "store_project_data"
    /\ repo_data = NoRepo
    /\ file_contents = <<>>
    /\ pc = "store"
    /\ idx = 0
    /\ languages = <<>>
    /\ frameworks = {}
    /\ databases = {}
    /\ file_structure = <<>>
    /\ total_lines = 0
    /\ analysis_result \in StoreInputs
    /\ runs = 1
    /\ prev_result = NoResult
    /\ buckets = NoBuckets
    /\ invocations = <<>>
    /\ hash_order = <<>>
    /\ store = NoStore
    /\ response = NoResponse

\* lines 64-98: the summary, technologies and structure records
StoreProjectRecords ==
    /\ pc = "store"
    /\ LET b1 == AddRecord(NoStore, analysis_result.summary,
                           [type |-> "summary",
                            main_language |-> analysis_result.main_language,
                            framework |-> analysis_result.framework,
                            architecture |->
                                analysis_result.architecture_type],
                           "summary_")
           b2 == AddRecord(b1,
                           "Technologies used: "
                              \o Join(", ", analysis_result.technologies),
                           [type |-> "technologies",
                            technologies |->
                                JsonDumps(analysis_result.technologies)],
                           "tech_")
           b3 == IF analysis_result.structure /= ""
                 THEN AddRecord(b2,
                                "Project structure:\n"
                                   \o analysis_result.structure,
                                [type |-> "structure",
                                 file_count |->
                                     analysis_result.files_analyzed],
                                "structure_")
                 ELSE b2
       IN  store' = b3
    /\ file_contents' = FirstFiles(analysis_result.context.files)
    /\ idx' = 0
    /\ pc' = "files"
    /\ UNCHANGED <<invocations, hash_order, response>>
    /\ UNCHANGED <<entry, repo_data, languages, frameworks, databases,
                   file_structure, total_lines, analysis_result, runs,
                   prev_result, buckets>>

\* lines 100-113: one iteration of the loop over files[:50]
StoreFile ==
    /\ pc = "files"
    /\ idx < Len(file_contents)
    /\ LET file_info == file_contents[idx + 1]
           content == file_info.content
           filename == file_info.name
       IN  store' =
              IF StoreFacts[content].meaningful
              THEN AddRecord(store,
                             "File: " \o filename \o "\n"
                                \o StoreFacts[content].stored,
                             [type |-> "file_content", filename |-> filename,
                              file_type |-> file_info.type],
                             "file_")
              ELSE store
    /\ idx' = idx + 1
    /\ UNCHANGED <<invocations, hash_order, response>>
    /\ UNCHANGED <<entry, repo_data, file_contents, pc, languages, frameworks,
                   databases, file_structure, total_lines, analysis_result,
                   runs, prev_result, buckets>>

\* lines 116-129: the batch goes to the collection when the embedding model
\* and the collection are there and neither encode nor add raises
AddToCollection ==
    /\ pc = "files"
    /\ idx = Len(file_contents)
    /\ \E added \in BOOLEAN : store' = [store EXCEPT !.added = added]
    /\ pc' = "stored"
    /\ UNCHANGED <<invocations, hash_order, response>>
    /\ UNCHANGED <<entry, repo_data, file_contents, idx, languages, frameworks,
                   databases, file_structure, total_lines, analysis_result,
                   runs, prev_result, buckets>>

NextStore == StoreProjectRecords \/ StoreFile \/ AddToCollection

StoreSpec == InitStore /\ [][NextStore]_vars

(***************************************************************************)
(* The handler of POST /api/analyze-files (main.py lines 56-82).  pc is    *)
(* "request" when the handler starts, then runs through the positions of   *)
(* analyze_files and of store_project_data, and is "responded" when the    *)
(* handler has returned or raised; response is what the client gets: the   *)
(* status, the detail of an error and the body of a success.  The uploads  *)
(* are held as the records lines 64-71 make of them.                       *)
(***************************************************************************)
MaxHandlerFiles == 2

InitHandler ==
    /\ entry = "analyze_files"
    /\ repo_data = NoRepo
    /\ file_contents \in UploadInputs(MaxHandlerFiles)
    /\ pc = "request"
    /\ idx = 0
    /\ languages = <<>>
    /\ frameworks = {}
    /\ databases = {}
    /\ file_structure = <<>>
    /\ total_lines = 0
    /\ analysis_result = NoResult
    /\ runs = 1
    /\ prev_result = NoResult
    /\ buckets = NoBuckets
    /\ AuxIdle

\* lines 59-71 and 81-82: the HTTPException of line 61 is raised inside the
\* try block, and `except Exception` catches it as any other exception;
\* str() of an HTTPException is "<status_code>: <detail>"
HandlerCheckFiles ==
    /\ pc = "request"
    /\ IF Len(file_contents) = 0
       THEN LET e == [status_code |-> 400, detail |-> "No files provided"]
                str == ToString(e.status_code) \o ": " \o e.detail
            IN  /\ response' = [status |-> 500,
                                detail |-> "Analysis failed: " \o str,
                                body |-> NoResult]
                /\ pc' = "responded"
       ELSE /\ pc' = "call"
            /\ UNCHANGED response
    /\ UNCHANGED <<invocations, hash_order, store>>
    /\ UNCHANGED <<entry, repo_data, file_contents, idx, languages, frameworks,
                   databases, file_structure, total_lines, analysis_result,
                   runs, prev_result, buckets>>

\* line 77: the result goes to store_project_data
HandlerStore ==
    /\ pc = "returned"
    /\ pc' = "store"
    /\ UNCHANGED aux
    /\ UNCHANGED <<entry, repo_data, file_contents, idx, languages, frameworks,
                   databases, file_structure, total_lines, analysis_result,
                   runs, prev_result, buckets>>

\* line 79: store_project_data has returned, whether or not the batch
\* reached the collection, and the result is the body of the response
HandlerReturn ==
    /\ pc = "stored"
    /\ response' = [status |-> 200, detail |-> "", body |-> analysis_result]
    /\ pc' = "responded"
    /\ UNCHANGED <<invocations, hash_order, store>>
    /\ UNCHANGED <<entry, repo_data, file_contents, idx, languages, frameworks,
                   databases, file_structure, total_lines, analysis_result,
                   runs, prev_result, buckets>>

NextHandler ==
    \/ HandlerCheckFiles
    \/ CallAnalyzeFiles
    \/ ScanFile
    \/ AssembleResult
    \/ HandlerStore
    \/ StoreProjectRecords
    \/ StoreFile
    \/ AddToCollection
    \/ HandlerReturn

HandlerSpec == InitHandler /\ [][NextHandler]_vars

(***************************************************************************)
(* Two requests on the one ProjectAnalyzer instance of main.py line 40.    *)
(* invocations.calls[r] is the call of request r: its argument, its        *)
(* position and its result dict; invocations.locals[r] holds the local     *)
(* variables analyze_files creates in lines 78-84 for that call.  The      *)
(* steps of the two calls interleave file by file, which covers the        *)
(* scheduling of the event loop (analyze_files has no await, so there a    *)
(* call runs to its end) and that of threads.  hash_order[r] keeps the     *)
(* iteration orders the sets of call r were listed in.                     *)
(***************************************************************************)
MaxConcFiles == 2

Requests == {1, 2}

\* the file lists of the requests: over two of the sample files
ConcInputs ==
    SeqsUpTo({f \in SampleFiles : f.name \in {"server.py", "style.css"}},
             MaxConcFiles) \ {<<>>}

\* lines 78-84
NewLocals ==
    [idx |-> 0, languages |-> <<>>, frameworks |-> {}, databases |-> {},
     file_structure |-> <<>>, total_lines |-> 0]

\* lines 86-116 on the local variables of a call
ScanStep(locals, file_info) ==
    LET filename == file_info.name
        content == file_info.content
        language == LanguageOf(filename)
        lines == CountLines(content)
    IN  [idx |-> locals.idx + 1,
         languages |-> UpdateLanguages(locals.languages, language),
         frameworks |->
            Accumulate(locals.frameworks, Detected[content].frameworks),
         databases |->
            Accumulate(locals.databases, Detected[content].databases),
         file_structure |->
            Append(locals.file_structure,
                   StructureEntry(filename, language, lines)),
         total_lines |-> locals.total_lines + lines]

\* every call on one set of local variables, as instance attributes would be
FrameOf_Shared(r) == 1

\* the local variables a call works on: its own
FrameOf(r) == r

InitConc ==
    /\ entry = "analyze_files"
    /\ repo_data = NoRepo
    /\ file_contents = <<>>
    /\ pc = "requests"
    /\ idx = 0
    /\ languages = <<>>
    /\ frameworks = {}
    /\ databases = {}
    /\ file_structure = <<>>
    /\ total_lines = 0
    /\ analysis_result = NoResult
    /\ runs = 1
    /\ prev_result = NoResult
    /\ buckets = NoBuckets
    /\ store = NoStore
    /\ response = NoResponse
    /\ hash_order = [r \in Requests |-> <<>>]
    /\ \E inputs \in [Requests -> ConcInputs] :
          invocations =
             [calls |-> [r \in Requests |->
                            [files |-> inputs[r], pc |-> "call",
                             result |-> NoResult]],
              locals |-> [r \in Requests |-> NewLocals]]

\* main.py line 74 and analyze_files lines 62-84 for request r
ConcEnter(r) ==
    /\ invocations.calls[r].pc = "call"
    /\ invocations' =
          [invocations EXCEPT
             !.calls[r].pc = "scan",
             !.calls[r].result = InitialResult(Len(invocations.calls[r].files)),
             !.locals[FrameOf(r)] = NewLocals]
    /\ UNCHANGED hash_order
    /\ UNCHANGED <<entry, repo_data, file_contents, pc, idx, languages, frameworks,
                   databases, file_structure, total_lines, analysis_result,
                   runs, prev_result, buckets, store, response>>

\* one iteration of the scan loop of request r
ConcScan(r) ==
    /\ invocations.calls[r].pc = "scan"
    /\ invocations.locals[FrameOf(r)].idx < Len(invocations.calls[r].files)
    /\ invocations' =
          [invocations EXCEPT
             !.locals[FrameOf(r)] =
                 ScanStep(@, invocations.calls[r].files[@.idx + 1])]
    /\ UNCHANGED hash_order
    /\ UNCHANGED <<entry, repo_data, file_contents, pc, idx, languages, frameworks,
                   databases, file_structure, total_lines, analysis_result,
                   runs, prev_result, buckets, store, response>>

\* lines 118-157 for request r
ConcAssemble(r) ==
    /\ invocations.calls[r].pc = "scan"
    /\ invocations.locals[FrameOf(r)].idx >= Len(invocations.calls[r].files)
    /\ LET call == invocations.calls[r]
           locals == invocations.locals[FrameOf(r)]
       IN  \E facts \in {FileFacts} :
           \E order \in Orders(DictKeySet(locals.languages)
                                 \cup locals.frameworks \cup locals.databases),
              orders \in AspectOrders(call.files, facts) :
              /\ invocations' =
                    [invocations EXCEPT
                       !.calls[r].pc = "returned",
                       !.calls[r].result =
                           Assemble(call.result, call.files, locals.languages,
                                    locals.frameworks, locals.databases,
                                    locals.file_structure, locals.total_lines,
                                    order, orders, facts)]
              /\ hash_order' =
                    [hash_order EXCEPT
                       ![r] = [order |-> order, orders |-> orders]]
    /\ UNCHANGED <<entry, repo_data, file_contents, pc, idx, languages, frameworks,
                   databases, file_structure, total_lines, analysis_result,
                   runs, prev_result, buckets, store, response>>

NextConc == \E r \in Requests : ConcEnter(r) \/ ConcScan(r) \/ ConcAssemble(r)

ConcSpec == InitConc /\ [][NextConc]_vars

(***************************************************************************)
(* Properties.                                                             *)
(***************************************************************************)
\* analyze_files has handed its result back
Analyzed == pc \in {"analyzed", "returned"}

NumFiles == Len(file_contents)

\* the language of each input name and the newline count of each input
\* content, tabulated
NameLanguage == [n \in {f.name : f \in InputFiles} |-> LanguageOf(n)]

FileLanguage(k) == NameLanguage[file_contents[k].name]

KnownFiles(n) == {k \in 1..n : FileLanguage(k) /= "Unknown"}

CountNewlines(content) ==
    Cardinality({i \in 1..Len(content) : Char(content, i) = "\n"})

ContentNewlines == [c \in {f.content : f \in InputFiles} |-> CountNewlines(c)]

NewlineCount(content) == ContentNewlines[content]

RECURSIVE SumLines(_)
SumLines(n) ==
    IF n = 0 THEN 0
    ELSE SumLines(n - 1) + NewlineCount(file_contents[n].content) + 1

RECURSIVE SumCounts(_, _)
SumCounts(d, n) == IF n = 0 THEN 0 ELSE SumCounts(d, n - 1) + d[n][2]

FrontendSignatures == {"React", "Vue", "Angular"}

BackendSignatures ==
    {"Express", "Django", "Flask", "FastAPI", "Spring", "Laravel", "Rails"}

FileFrameworks(k) == Detected[file_contents[k].content].frameworks

\* C1: an empty input file sequence is rejected with InvalidInput before any
\* processing, and no AnalysisResult reaches the caller, for analyze_files
\* on an empty list and for analyze_repository on a repository without files.
C1_EmptyInputRejected == ~(Analyzed /\ NumFiles = 0)

\* C2: _determine_architecture returns exactly one of the five labels, by
\* first match: frontend and backend framework -> Full-stack; frontend only
\* -> Frontend; backend only -> Backend; neither and HTML and CSS both keys
\* of the histogram -> Static Website; otherwise Unknown.
C2_ArchitectureDecision ==
    (Analyzed \/ pc = "inferred") =>
        LET fe == \E f \in frameworks : f \in FrontendSignatures
            be == \E f \in frameworks : f \in BackendSignatures
            web == {"HTML", "CSS"} \subseteq DictKeySet(languages)
            label == analysis_result.architecture_type
        IN  /\ Len(label) = 1
            /\ label[1] \in {"Full-stack", "Frontend", "Backend",
                             "Static Website", "Unknown"}
            /\ (fe /\ be) <=> label[1] = "Full-stack"
            /\ (fe /\ ~be) <=> label[1] = "Frontend"
            /\ (~fe /\ be) <=> label[1] = "Backend"
            /\ (~fe /\ ~be /\ web) <=> label[1] = "Static Website"
            /\ (~fe /\ ~be /\ ~web) <=> label[1] = "Unknown"

C2_Witness ==
    /\ pc = "inferred"
    /\ frameworks = {}
    /\ DictHas(languages, "HTML") /\ DictHas(languages, "CSS")
    /\ analysis_result.architecture_type = <<"Static Website">>

\* C3: when some file matches a frontend framework signature and some file
\* matches a backend framework signature, architecture_type is Full-stack,
\* whatever the order of the files.
C3_FullStackAnyOrder ==
    Analyzed =>
        ( ( /\ \E i \in 1..NumFiles : FileFrameworks(i) \cap FrontendSignatures /= {}
            /\ \E j \in 1..NumFiles : FileFrameworks(j) \cap BackendSignatures /= {} )
          => analysis_result.architecture_type = <<"Full-stack">> )

C3_Witness ==
    /\ Analyzed
    /\ NumFiles >= 2
    /\ FileFrameworks(1) \cap BackendSignatures /= {}
    /\ FileFrameworks(1) \cap FrontendSignatures = {}
    /\ FileFrameworks(NumFiles) \cap FrontendSignatures /= {}
    /\ analysis_result.architecture_type = <<"Full-stack">>

SameResult(a, b) ==
    /\ a.main_language = b.main_language
    /\ a.framework = b.framework
    /\ a.architecture_type = b.architecture_type
    /\ a.technologies = b.technologies
    /\ a.summary = b.summary

\* C4: two runs of analyze_files on the same input (a re-run on the
\* unchanged file set included) give the same main_language, framework,
\* architecture_type, technologies list (order included) and summary.
C4_RunsAgree ==
    (pc = "returned" /\ runs > 1) => SameResult(prev_result, analysis_result)

\* C5: the reported framework is one matched by the earliest file that
\* matches any framework (never one first matched by a later file), and is
\* absent when no framework was detected.
C5_PrimaryFrameworkFirstSeen ==
    Analyzed =>
        LET matching == {k \in 1..NumFiles : FileFrameworks(k) /= {}}
        IN  IF matching = {} THEN analysis_result.framework = <<>>
            ELSE LET first == CHOOSE k \in matching : \A m \in matching : k <= m
                 IN  /\ Len(analysis_result.framework) = 1
                     /\ analysis_result.framework[1] \in FileFrameworks(first)

\* C6: main_language is the histogram key of greatest count; among keys that
\* share the greatest count it is the one first met in input order; it is
\* unset only when no file resolved to a known language.
C6_MainLanguage ==
    Analyzed =>
        LET known == KnownFiles(NumFiles)
            count(l) == Cardinality({k \in known : FileLanguage(k) = l})
            firstAt(l) == CHOOSE k \in known :
                              /\ FileLanguage(k) = l
                              /\ \A m \in known : FileLanguage(m) = l => k <= m
            main == analysis_result.main_language
        IN  IF known = {} THEN main = <<>>
            ELSE /\ Len(main) = 1
                 /\ count(main[1]) >= 1
                 /\ \A k \in known :
                       LET l == FileLanguage(k)
                       IN  /\ count(l) <= count(main[1])
                           /\ (count(l) = count(main[1]) /\ l /= main[1])
                                 => firstAt(main[1]) < firstAt(l)

C6_Witness ==
    /\ Analyzed
    /\ NumFiles = 3
    /\ Len(languages) = 3
    /\ \A i \in 1..3 : languages[i][2] = 1
    /\ analysis_result.main_language = <<FileLanguage(1)>>

\* C7: after any prefix of the scan and in the final result, every histogram
\* key has count >= 1, 'Unknown' is never a key, and the counts sum to the
\* number of scanned files whose extension resolved to a known language.
C7_HistogramSound ==
    (pc \in {"scan", "analyzed", "returned"}) =>
        /\ \A i \in 1..Len(languages) : languages[i][2] >= 1
        /\ \A i, j \in 1..Len(languages) :
              languages[i][1] = languages[j][1] => i = j
        /\ ~DictHas(languages, "Unknown")
        /\ SumCounts(languages, Len(languages)) = Cardinality(KnownFiles(idx))
        /\ Analyzed => analysis_result.context.languages = languages

C7_Witness ==
    /\ pc = "scan"
    /\ idx = 2
    /\ idx < NumFiles
    /\ FileLanguage(1) = "Unknown"
    /\ languages = << <<FileLanguage(2), 1>> >>

\* C8: complexity_score = min(totalLines / 1000, 10): 0 for no lines, within
\* [0, 10], non-decreasing in the total line count, and exactly 10 from
\* 10000 lines on.  (The score is held in thousandths.)
C8_ComplexityScore ==
    (pc = "scored") =>
        LET score == analysis_result.complexity_score
        IN  /\ 0 <= score /\ score <= 10 * 1000
            /\ total_lines < 10000 => score = total_lines
            /\ total_lines >= 10000 => score = 10 * 1000
            /\ total_lines = 0 => score = 0
            /\ (runs > 1 /\ prev_result.total_lines < total_lines)
                  => prev_result.complexity_score <= score

C8_Witness ==
    /\ pc = "scored"
    /\ runs > 1
    /\ prev_result.total_lines < total_lines
    /\ prev_result.total_lines >= 10000
    /\ total_lines >= 12000
    /\ analysis_result.complexity_score = 10 * 1000

EqualsIgnoreCase(a, b) == Lower(a) = Lower(b)

\* C9: a file's language is looked up by its extension, case-insensitively;
\* a file whose extension is not in the table gets 'Unknown', leaves the
\* histogram unchanged, still adds its line count to the total and still gets
\* its own structure entry.
C9_ExtensionLookup ==
    [][ (pc = "scan" /\ idx' = idx + 1) =>
          LET f == file_contents[idx + 1]
              ext == PathSuffix(f.name)
              hits == {e \in DictKeySet(supported_extensions) :
                          EqualsIgnoreCase(e, ext)}
              lines == NewlineCount(f.content) + 1
          IN  /\ pc' = "scan"
              /\ total_lines' = total_lines + lines
              /\ Len(file_structure') = Len(file_structure) + 1
              /\ hits = {} =>
                    /\ languages' = languages
                    /\ file_structure'[idx + 1] =
                          f.name \o " (Unknown, " \o ToString(lines) \o " lines)"
              /\ \A e \in hits :
                    LET l == DictGet(supported_extensions, e, "Unknown")
                    IN  /\ DictGet(languages', l, 0) = DictGet(languages, l, 0) + 1
                        /\ file_structure'[idx + 1] =
                              f.name \o " (" \o l \o ", " \o ToString(lines)
                                     \o " lines)"
      ]_vars

C9_Witness ==
    /\ pc = "scan"
    /\ idx = 2
    /\ PathSuffix(file_contents[1].name) /= Lower(PathSuffix(file_contents[1].name))
    /\ ~DictHas(supported_extensions, Lower(PathSuffix(file_contents[2].name)))
    /\ languages = << <<"Python", 1>> >>
    /\ Len(file_structure) = 2
    /\ total_lines = SumLines(2)

\* C10: a file's line count is the number of segments of its content split
\* on newline (1 for empty content, the trailing empty segment counted); the
\* total is the sum of the per-file counts; the structure listing has one
\* entry '<name> (<language>, <lines> lines)' per input file, in input order.
ExpectedEntry(k) ==
    file_contents[k].name \o " (" \o FileLanguage(k) \o ", "
        \o ToString(NewlineCount(file_contents[k].content) + 1) \o " lines)"

C10_LinesAndStructure ==
    (pc \in {"scan", "analyzed", "returned"}) =>
        /\ Len(file_structure) = idx
        /\ \A k \in 1..idx : file_structure[k] = ExpectedEntry(k)
        /\ total_lines = SumLines(idx)
        /\ Analyzed =>
              /\ idx = NumFiles
              /\ analysis_result.context.total_lines = SumLines(NumFiles)
              /\ analysis_result.structure =
                    Join("\n", [k \in 1..NumFiles |-> ExpectedEntry(k)])

C10_Witness ==
    /\ Analyzed
    /\ NumFiles = 2
    /\ file_contents[1].content = ""
    /\ Len(file_contents[2].content) > 0
    /\ Char(file_contents[2].content, Len(file_contents[2].content)) = "\n"
    /\ total_lines = 1 + NewlineCount(file_contents[2].content) + 1
    /\ Len(Split(analysis_result.structure, "\n")) = 2

\* the <<technology, pattern number>> pairs of a catalog whose pattern
\* re.search finds in a content under re.IGNORECASE, tabulated
PatternHitsOf(catalog, content) ==
    UNION { { <<catalog[t][1], k>> :
                k \in { n \in 1..Len(catalog[t][2]) :
                          ReSearchIgnoreCase(catalog[t][2][n], content) } } :
            t \in 1..Len(catalog) }

PatternHits ==
    [c \in {f.content : f \in InputFiles} |->
        [frameworks |-> PatternHitsOf(framework_patterns, c),
         databases |-> PatternHitsOf(database_patterns, c)]]

DatabaseNames == {database_patterns[i][1] : i \in 1..Len(database_patterns)}

\* C11: after the scan of any prefix of the input, a framework (database) is
\* in the framework (database) set if and only if one of its catalog
\* patterns is found in the content of one of the scanned files; a file that
\* matches several technologies adds each of them; the two sets hold names
\* of their own catalog only.
C11_DetectedIffMatched ==
    (pc = "scan") =>
        /\ \A t \in FrameworkNames :
              t \in frameworks <=>
                 \E k \in 1..idx, n \in 1..4 :
                    <<t, n>> \in PatternHits[file_contents[k].content].frameworks
        /\ \A t \in DatabaseNames :
              t \in databases <=>
                 \E k \in 1..idx, n \in 1..4 :
                    <<t, n>> \in PatternHits[file_contents[k].content].databases
        /\ frameworks \subseteq FrameworkNames
        /\ databases \subseteq DatabaseNames

\* one file matched by two frameworks and a database, after a file without
\* any signature
C11_Witness ==
    /\ pc = "scan"
    /\ idx = 2
    /\ PatternHits[file_contents[1].content].frameworks = {}
    /\ PatternHits[file_contents[1].content].databases = {}
    /\ frameworks = {"Django", "Flask"}
    /\ databases = {"Redis"}
    /\ <<"Redis", 2>> \in PatternHits[file_contents[2].content].databases
    /\ <<"Redis", 1>> \notin PatternHits[file_contents[2].content].databases

\* C12: the technologies list holds no name twice and, as a set, is the
\* union of the histogram keys, the detected frameworks and the detected
\* databases; a name that is a language and a framework appears once.
C12_TechnologiesUnion ==
    Analyzed =>
        LET techs == analysis_result.technologies
        IN  /\ \A i, j \in 1..Len(techs) : techs[i] = techs[j] => i = j
            /\ SeqToSet(techs) =
                  DictKeySet(languages) \cup frameworks \cup databases

C12_Witness ==
    /\ Analyzed
    /\ DictHas(languages, "React")
    /\ "React" \in frameworks
    /\ databases /= {}
    /\ Cardinality({i \in 1..Len(analysis_result.technologies) :
                       analysis_result.technologies[i] = "React"}) = 1

\* C13: in every result of analyze_files, main_language, framework and
\* architecture_type are strings and technologies is a list: when no language
\* (no framework) was detected, main_language (framework) is the empty
\* string, never None.
C13_NonNullShaped ==
    Analyzed =>
        /\ Len(analysis_result.main_language) = 1
        /\ Len(analysis_result.framework) = 1
        /\ Len(analysis_result.architecture_type) = 1
        /\ languages = <<>> => analysis_result.main_language = <<"">>
        /\ frameworks = {} => analysis_result.framework = <<"">>
        /\ DOMAIN analysis_result.technologies =
              1..Len(analysis_result.technologies)

\* C17: the summary holds the clause ' using the <framework> framework' if
\* and only if a primary framework was detected; without one it holds no
\* framework clause and names no framework.
C17_FrameworkClauseOptional ==
    Analyzed =>
        LET summary == analysis_result.summary
        IN  /\ frameworks /= {} =>
                  StrIn(" using the " \o analysis_result.framework[1]
                           \o " framework", summary)
            /\ frameworks = {} =>
                  /\ ~StrIn(" using the ", summary)
                  /\ ~StrIn(" framework", summary)

\* the four bucket tests of lines 275-281 on each input name, each taken
\* alone, tabulated
NameTests ==
    [n \in {f.name : f \in InputFiles} |->
        [frontend |-> PassesTest("frontend", Lower(n)),
         backend |-> PassesTest("backend", Lower(n)),
         database |-> PassesTest("database", Lower(n)),
         config |-> PassesTest("config", Lower(n))]]

BucketNames == <<"frontend", "backend", "database", "config">>

\* the bucket tests a name passes, as positions in the order of the tests
PassedTests(name) == {b \in 1..4 : NameTests[name][BucketNames[b]]}

\* the files, in input order, whose earliest passed test is test b
EarliestIn(b) ==
    SelectSeq(file_contents,
              LAMBDA f : /\ b \in PassedTests(f.name)
                         /\ \A a \in 1..(b - 1) : a \notin PassedTests(f.name))

BucketSeq(b) ==
    CASE b = 1 -> buckets.frontend_files
      [] b = 2 -> buckets.backend_files
      [] b = 3 -> buckets.database_files
      [] b = 4 -> buckets.config_files

\* C14: the bucket tests are taken in the order frontend, backend, database,
\* config and the first test a file passes decides: each bucket holds, in
\* input order, the files whose earliest passed test is its own, so a file
\* is in at most one bucket and a file passing no test is in none.
C14_FirstMatchingBucketWins ==
    Analyzed =>
        /\ \A b \in 1..4 : BucketSeq(b) = EarliestIn(b)
        /\ \A a, b \in 1..4 :
              a /= b => SeqToSet(BucketSeq(a)) \cap SeqToSet(BucketSeq(b)) = {}
        /\ Len(BucketSeq(1)) + Len(BucketSeq(2)) + Len(BucketSeq(3))
              + Len(BucketSeq(4))
           = Cardinality({k \in 1..NumFiles :
                             PassedTests(file_contents[k].name) /= {}})

\* three files that each pass two tests, two of them in one bucket in input
\* order, after the categorization
C14_Witness ==
    /\ Analyzed
    /\ NumFiles = 3
    /\ PassedTests(file_contents[1].name) = {2, 3}
    /\ PassedTests(file_contents[2].name) = {1, 2}
    /\ PassedTests(file_contents[3].name) = {2}
    /\ buckets.backend_files = <<file_contents[1], file_contents[3]>>
    /\ buckets.frontend_files = <<file_contents[2]>>
    /\ buckets.database_files = <<>>

\* the input without the files that pass none of the four bucket tests
Bucketed == SelectSeq(file_contents, LAMBDA f : PassedTests(f.name) /= {})

\* the files of a list, in order, whose earliest passed test is test b
EarliestOf(files, b) ==
    SelectSeq(files,
              LAMBDA f : /\ b \in PassedTests(f.name)
                         /\ \A a \in 1..(b - 1) : a \notin PassedTests(f.name))

\* the fields of the frontend, backend and database records that are filled
\* file by file, with the class names of a stylesheet as a set
PerFileFields(d) ==
    [components |-> d.frontend.components,
     styles |-> [m \in 1..Len(d.frontend.styles) |->
                    [d.frontend.styles[m] EXCEPT !.classes = SeqToSet(@)]],
     routing_files |-> d.frontend.routing_files,
     state_management |-> d.frontend.state_management,
     api_files |-> d.backend.api_files,
     models |-> d.backend.models,
     middleware |-> d.backend.middleware,
     schemas |-> d.database.schemas,
     migrations |-> d.database.migrations]

\* the same fields as the three bucket analyzers fill them from a file list
PerFileFieldsOf(files) ==
    LET fe == EarliestOf(files, 1)
        be == EarliestOf(files, 2)
        db == EarliestOf(files, 3)
    IN  [components |-> Gather(fe, LAMBDA f : FileFacts[f].frontend.components),
         styles |-> Gather(fe, LAMBDA f : FileFacts[f].frontend.styles),
         routing_files |-> Gather(fe, LAMBDA f : FileFacts[f].frontend.routing),
         state_management |->
            Gather(fe, LAMBDA f : FileFacts[f].frontend.state_management),
         api_files |-> Gather(be, LAMBDA f : FileFacts[f].backend.apis),
         models |-> Gather(be, LAMBDA f : FileFacts[f].backend.models),
         middleware |-> Gather(be, LAMBDA f : FileFacts[f].backend.middleware),
         schemas |-> Gather(db, LAMBDA f : FileFacts[f].database.schemas),
         migrations |-> Gather(db, LAMBDA f : FileFacts[f].database.migrations)]

\* the technologies, patterns and layers of a file list
FrameworksOf(files) ==
    UNION {Detected[files[k].content].frameworks : k \in 1..Len(files)}

DatabasesOf(files) ==
    UNION {Detected[files[k].content].databases : k \in 1..Len(files)}

\* the fields of the four records that are derived from sets, as sets
SetFields(d) ==
    [frontend_frameworks |-> SeqToSet(d.frontend.frameworks_used),
     backend_frameworks |-> SeqToSet(d.backend.frameworks_used),
     databases_used |-> SeqToSet(d.backend.databases_used),
     databases_detected |-> SeqToSet(d.database.databases_detected),
     patterns |-> SeqToSet(d.architecture.patterns),
     layers |-> SeqToSet(d.architecture.layers),
     separation_of_concerns |-> d.architecture.separation_of_concerns]

SetFieldsOf(files) ==
    [frontend_frameworks |->
        FrameworksOf(files) \cap {"React", "Vue", "Angular"},
     backend_frameworks |->
        FrameworksOf(files)
           \cap {"Django", "Flask", "FastAPI", "Express", "Spring"},
     databases_used |-> DatabasesOf(files),
     databases_detected |-> DatabasesOf(files),
     patterns |-> SeqToSet(ArchitecturePatterns(files, FileFacts)),
     layers |-> SeqToSet(ArchitectureLayers(files, FileFacts)),
     separation_of_concerns |->
        Cardinality(SeqToSet(ArchitectureLayers(files, FileFacts))) > 1]

\* C15 as stated: a file that passes none of the four bucket tests adds
\* nothing to the frontend, backend, database and architecture records, which
\* are those of the input without such files.
C15_UnbucketedAddNothing ==
    Analyzed =>
        /\ PerFileFields(analysis_result.detailed_analysis)
              = PerFileFieldsOf(Bucketed)
        /\ SetFields(analysis_result.detailed_analysis) = SetFieldsOf(Bucketed)

\* C15, amended: a file that passes none of the four bucket tests is not
\* scanned by the frontend, backend and database analyzers, whose file by
\* file fields are those of the input without such files; the architecture
\* analyzer scans every file, and the framework and database lists of the
\* records are taken from the technologies detected in every file.
C15_UnbucketedNotScannedByBucketAnalyzers ==
    Analyzed =>
        /\ PerFileFields(analysis_result.detailed_analysis)
              = PerFileFieldsOf(Bucketed)
        /\ SetFields(analysis_result.detailed_analysis)
              = SetFieldsOf(file_contents)

\* a file outside every bucket whose content and name carry signals of the
\* frontend analyzer and of the architecture analyzer, next to a frontend
\* file that is reported
C15_Witness ==
    /\ Analyzed
    /\ \E k \in 1..NumFiles :
          /\ PassedTests(file_contents[k].name) = {}
          /\ FileFacts[file_contents[k]].frontend.routing /= <<>>
          /\ FileFacts[file_contents[k]].layer = <<"Service Layer">>
    /\ Len(Bucketed) = 2
    /\ analysis_result.detailed_analysis.frontend.components /= <<>>
    /\ analysis_result.detailed_analysis.frontend.routing_files = <<>>
    /\ "Service Layer" \in
          SeqToSet(analysis_result.detailed_analysis.architecture.layers)
    /\ FrameworksOf(Bucketed) = {}
    /\ analysis_result.detailed_analysis.frontend.frameworks_used
          = <<"Angular">>

\* the list-valued fields of a detailed analysis
ListFields(d) ==
    << d.overview.key_files, d.overview.entry_points,
       d.frontend.components, d.frontend.styles, d.frontend.routing_files,
       d.frontend.state_management, d.frontend.frameworks_used,
       d.backend.api_files, d.backend.models, d.backend.middleware,
       d.backend.frameworks_used, d.backend.databases_used,
       d.database.schemas, d.database.migrations,
       d.database.databases_detected,
       d.architecture.patterns, d.architecture.layers,
       d.flow.data_flow, d.flow.request_flow,
       d.flow.component_hierarchy.component_files >>

\* the lists inside the entries of the list-valued fields
NestedLists(d) ==
    [m \in 1..Len(d.frontend.components) |-> d.frontend.components[m].exports]
    \o [m \in 1..Len(d.frontend.components) |->
           d.frontend.components[m].imports]
    \o [m \in 1..Len(d.frontend.styles) |-> d.frontend.styles[m].classes]
    \o [m \in 1..Len(d.backend.api_files) |-> d.backend.api_files[m].endpoints]
    \o [m \in 1..Len(d.backend.models) |-> d.backend.models[m].models]
    \o [m \in 1..Len(d.database.schemas) |-> d.database.schemas[m].tables]

IsList(x) == DOMAIN x = 1..Len(x)

\* a file whose name and content carry no signal of any analyzer
SignalFree(f) ==
    /\ FileFacts[f].overview.key_files = <<>>
    /\ FileFacts[f].overview.entry_points = <<>>
    /\ FileFacts[f].layer = <<>>
    /\ FileFacts[f].pattern_keys = {}
    /\ FileFacts[f].data_flow = <<>>
    /\ FileFacts[f].request_flow = <<>>
    /\ FileFacts[f].component = <<>>
    /\ FileFacts[f].bucket = "frontend" =>
          /\ FileFacts[f].frontend.components = <<>>
          /\ FileFacts[f].frontend.styles = <<>>
          /\ FileFacts[f].frontend.routing = <<>>
          /\ FileFacts[f].frontend.state_management = <<>>
    /\ FileFacts[f].bucket = "backend" =>
          /\ FileFacts[f].backend.apis = <<>>
          /\ FileFacts[f].backend.models = <<>>
          /\ FileFacts[f].backend.middleware = <<>>
    /\ FileFacts[f].bucket = "database" =>
          /\ FileFacts[f].database.schemas = <<>>
          /\ FileFacts[f].database.migrations = <<>>
    /\ Detected[f.content].frameworks = {}
    /\ Detected[f.content].databases = {}

\* C16: on every file list, the empty list and lists whose files match no
\* bucket or no pattern included, the six aspect analyzers return their
\* records: the complexity indicators are four fields with natural numbers
\* for the counts, every list-valued field is a list, and when no file
\* carries a signal every list is empty, the component count is zero and
\* the average of an empty list is zero.
C16_AnalyzersTotal ==
    Analyzed =>
        LET d == analysis_result.detailed_analysis
            ci == d.overview.complexity_indicators
        IN  /\ DOMAIN d = {"overview", "frontend", "backend", "database",
                           "architecture", "flow"}
            /\ DOMAIN ci = {"total_files", "total_lines",
                            "avg_lines_per_file", "complexity_level"}
            /\ ci.total_files = NumFiles
            /\ ci.total_lines \in Nat
            /\ ci.avg_lines_per_file \in Nat
            /\ NumFiles = 0 => ci.total_lines = 0 /\ ci.avg_lines_per_file = 0
            /\ d.flow.component_hierarchy.total_components \in Nat
            /\ d.architecture.separation_of_concerns \in BOOLEAN
            /\ \A m \in 1..Len(ListFields(d)) : IsList(ListFields(d)[m])
            /\ \A m \in 1..Len(NestedLists(d)) : IsList(NestedLists(d)[m])
            /\ (\A k \in 1..NumFiles : SignalFree(file_contents[k])) =>
                  /\ \A m \in 1..Len(ListFields(d)) : ListFields(d)[m] = <<>>
                  /\ d.flow.component_hierarchy.total_components = 0

\* the analyzers have run on the empty list, with a file without any signal
\* among the inputs
C16_Witness ==
    /\ Analyzed
    /\ NumFiles = 0
    /\ \E f \in AspectFiles : SignalFree(f)
    /\ analysis_result.detailed_analysis.overview.complexity_indicators
          .avg_lines_per_file = 0
    /\ analysis_result.detailed_analysis.frontend.components = <<>>

\* C19: once analyze_files holds the file list, no step of it or of an
\* aspect analyzer changes a file record, the length or the order of the
\* list, or the repository data it was built from, and the list handed back
\* in the context is the input list. (The Language Table and the Signature
\* Catalog are assigned in __init__ only: they are constants here.)
C19_InputOnlyRead ==
    [][ /\ (pc /= "call") =>
              /\ file_contents' = file_contents
              /\ repo_data' = repo_data
        /\ (pc' \in {"analyzed", "returned"}) =>
              analysis_result'.context.files = file_contents' ]_vars

\* a returned analysis of two different files, one with capitals in its name
\* that the categorization lower-cases for its tests
C19_Witness ==
    /\ pc = "returned"
    /\ NumFiles = 2
    /\ file_contents[1] /= file_contents[2]
    /\ Lower(file_contents[1].name) /= file_contents[1].name
    /\ buckets.frontend_files = <<file_contents[1]>>
    /\ analysis_result.context.files = file_contents

\* the positions of the records of the batch that carry a type tag
OfType(t) == {r \in 1..Len(store.metadatas) : store.metadatas[r].type = t}

ContextFiles == analysis_result.context.files

\* the positions of the first 50 files of the context
Leading == {k \in 1..Len(ContextFiles) : k <= FileLimit}

\* those of them whose content, stripped, is longer than 50 characters
Meaningful == {k \in Leading : StoreFacts[ContextFiles[k].content].meaningful}

\* the document of a file: its name and the first 2000 characters of its
\* content
FileDocument(f) ==
    "File: " \o f.name \o "\n"
       \o (IF Len(f.content) > ContentLimit
           THEN SubSeq(f.content, 1, ContentLimit) ELSE f.content)

\* the batch holds one summary and one technologies record, `structures`
\* structure records and exactly one file_content record for each file at a
\* position of `stored`, with its content cut; every record has an
\* identifier of its own and one of the four type tags
BatchHolds(structures, stored) ==
    /\ Len(store.documents) = Len(store.metadatas)
    /\ Len(store.ids) = Len(store.metadatas)
    /\ Cardinality(OfType("summary")) = 1
    /\ Cardinality(OfType("technologies")) = 1
    /\ Cardinality(OfType("structure")) = structures
    /\ Cardinality(OfType("file_content")) = Cardinality(stored)
    /\ \A k \in stored :
          \E r \in OfType("file_content") :
             /\ store.metadatas[r].filename = ContextFiles[k].name
             /\ store.documents[r] = FileDocument(ContextFiles[k])
    /\ \A r \in OfType("file_content") :
          \E k \in stored : store.metadatas[r].filename = ContextFiles[k].name
    /\ \A r, q \in 1..Len(store.ids) : store.ids[r] = store.ids[q] => r = q
    /\ \A r \in 1..Len(store.metadatas) :
          store.metadatas[r].type
             \in {"summary", "technologies", "structure", "file_content"}

\* C20 as stated: the batch holds one summary, one technologies and one
\* structure record and one file_content record for each of the first 50
\* files of the context, with the content cut to 2000 characters, and none
\* for a later file; every record has its own identifier and one of the
\* four type tags.
C20_RecordForEachLeadingFile ==
    (pc = "stored") => BatchHolds(1, Leading)

\* C20, amended: the structure record is there only when the structure text
\* is not empty, and a file among the first 50 has its file_content record
\* only when its content, stripped of surrounding whitespace, is longer than
\* 50 characters.
C20_RecordForEachMeaningfulFile ==
    (pc = "stored") =>
        BatchHolds(IF analysis_result.structure /= "" THEN 1 ELSE 0,
                   Meaningful)

\* a batch built from more than 50 files: the 51st has a content that would
\* be stored, a file among the first 50 has a content of 50 characters inside
\* whitespace and is left out, and one of more than 2000 characters is cut
C20_Witness ==
    /\ pc = "stored"
    /\ Len(ContextFiles) > FileLimit
    /\ StoreFacts[ContextFiles[FileLimit + 1].content].meaningful
    /\ \E k \in Leading \ Meaningful :
          Len(Strip(ContextFiles[k].content)) = MeaningfulLength
    /\ \E k \in Meaningful : Len(ContextFiles[k].content) > ContentLimit
    /\ Len(store.documents) = 2 + Cardinality(Meaningful)
    /\ analysis_result.structure = ""

\* the local variables after the scan of the first n files of a list
RECURSIVE ScanPrefix(_, _)
ScanPrefix(files, n) ==
    IF n = 0 THEN NewLocals ELSE ScanStep(ScanPrefix(files, n - 1), files[n])

\* what analyze_files returns for a file list when no other call is under
\* way, its sets listed in the given orders
RunAlone(files, order, orders) ==
    LET locals == ScanPrefix(files, Len(files))
    IN  Assemble(InitialResult(Len(files)), files, locals.languages,
                 locals.frameworks, locals.databases, locals.file_structure,
                 locals.total_lines, order, orders, FileFacts)

\* C18: under every interleaving of the steps of two calls of analyze_files
\* on the shared instance, a step of one call leaves the argument, the
\* position, the result and the local variables of the other call as they
\* were, and a call returns what it returns when run alone on its file list
\* (its sets listed in the same orders).
C18_CallsDoNotInterfere ==
    [][ \E r \in Requests :
          /\ \A q \in Requests \ {r} :
                /\ invocations'.calls[q] = invocations.calls[q]
                /\ invocations'.locals[q] = invocations.locals[q]
                /\ hash_order'[q] = hash_order[q]
          /\ invocations'.calls[r].pc = "returned" =>
                invocations'.calls[r].result =
                   RunAlone(invocations.calls[r].files, hash_order'[r].order,
                            hash_order'[r].orders) ]_vars

\* both calls have returned, on different file lists and with different
\* results
C18_Witness ==
    /\ invocations /= <<>>
    /\ \A r \in Requests : invocations.calls[r].pc = "returned"
    /\ invocations.calls[1].files /= invocations.calls[2].files
    /\ Len(invocations.calls[1].files) = 2
    /\ invocations.calls[1].result /= invocations.calls[2].result
    /\ invocations.calls[2].result.files_analyzed
          = Len(invocations.calls[2].files)

\* the declarations each file of RouteFiles was written with
RouteDecls ==
    [f \in RouteFiles |->
        (CHOOSE sample \in RouteSamples : sample.file = f).decls]

\* the pair promised for a declaration
PairOf(d) == [method |-> Upper(d.method), path |-> d.path]

\* the files of the backend bucket that carry a declaration, in input order
RoutedFiles == SelectSeq(buckets.backend_files, LAMBDA f : RouteDecls[f] /= <<>>)

ApiFiles == analysis_result.detailed_analysis.backend.api_files

\* C21: api_files has one entry for each backend-bucket file that carries a
\* route declaration @app.<method>('<path>'), @router.<method>('<path>') or
\* app.<method>('<path>') in any letter case, in input order, and none for
\* any other file; the endpoints of an entry are the pairs {method in upper
\* case, path} of the declarations of its file.  For the one file server.py
\* with a FastAPI import and @app.get('/users') the result has main_language
\* Python, framework FastAPI, architecture_type Backend, and {GET, /users}
\* is among the endpoints.
C21_RoutesBecomePairs ==
    Analyzed =>
        /\ Len(ApiFiles) = Len(RoutedFiles)
        /\ \A k \in 1..Len(ApiFiles) :
              /\ ApiFiles[k].file = RoutedFiles[k].name
              /\ SeqToSet(ApiFiles[k].endpoints)
                    = {PairOf(d) : d \in SeqToSet(RouteDecls[RoutedFiles[k]])}
        /\ (NumFiles = 1 /\ file_contents[1].name = "server.py") =>
              /\ analysis_result.main_language = <<"Python">>
              /\ analysis_result.framework = <<"FastAPI">>
              /\ analysis_result.architecture_type = <<"Backend">>
              /\ [method |-> "GET", path |-> "/users"]
                    \in SeqToSet(ApiFiles[1].endpoints)

\* two backend files with declarations in other letter cases and with both
\* quotes, analyzed
C21_Witness ==
    /\ Analyzed
    /\ NumFiles = 2
    /\ file_contents[1].name = "routes.py"
    /\ file_contents[2].name = "main.rb"
    /\ Len(ApiFiles) = 2
    /\ [method |-> "PUT", path |-> "/items/1"]
          \in SeqToSet(ApiFiles[1].endpoints)
    /\ [method |-> "PATCH", path |-> "/users/2"]
          \in SeqToSet(ApiFiles[2].endpoints)

\* C27: every route declaration is reported exactly once: the endpoints of
\* a file are as many as its declarations.
C27_EachDeclarationOnce ==
    Analyzed =>
        \A k \in 1..Len(ApiFiles) :
            Len(ApiFiles[k].endpoints) = Len(RouteDecls[RoutedFiles[k]])

Indicators == analysis_result.detailed_analysis.overview.complexity_indicators

\* C22: total_files is the number of files, total_lines the sum over the
\* files of the number of pieces the newlines cut the content into,
\* avg_lines_per_file the floor of total_lines / total_files and 0 for no
\* files, and complexity_level is Low below 1000 lines, Medium from 1000 to
\* below 5000 and High from 5000 on.
C22_ComplexityIndicators ==
    Analyzed =>
        LET total == SumLines(NumFiles)
            avg == Indicators.avg_lines_per_file
        IN  /\ Indicators.total_files = NumFiles
            /\ Indicators.total_lines = total
            /\ NumFiles = 0 => avg = 0
            /\ NumFiles > 0 =>
                  /\ avg * NumFiles <= total
                  /\ total < (avg + 1) * NumFiles
            /\ total < 1000 => Indicators.complexity_level = "Low"
            /\ (1000 <= total /\ total < 5000) =>
                  Indicators.complexity_level = "Medium"
            /\ total >= 5000 => Indicators.complexity_level = "High"

\* a list one line short of 5000 whose quotient is not exact, analyzed
C22_Witness ==
    /\ Analyzed
    /\ NumFiles = 20
    /\ Indicators.total_lines = 4999
    /\ Indicators.avg_lines_per_file = 249
    /\ Indicators.complexity_level = "Medium"

\* the keywords each input name holds once it is lower-cased
NameKeywords ==
    [n \in {f.name : f \in InputFiles} |->
        {key \in {"controller", "service", "model", "entity", "repository"} :
            StrIn(key, Lower(n))}]

\* the layers of a name: the layer of the first keyword it holds, in the
\* order controller, service, model or entity
LayersOfName(n) ==
    IF "controller" \in NameKeywords[n] THEN {"Controller Layer"}
    ELSE IF "service" \in NameKeywords[n] THEN {"Service Layer"}
    ELSE IF NameKeywords[n] \cap {"model", "entity"} /= {} THEN {"Data Layer"}
    ELSE {}

SomeNameHolds(key) ==
    \E k \in 1..NumFiles : key \in NameKeywords[file_contents[k].name]

Architecture == analysis_result.detailed_analysis.architecture

\* C23: every file adds at most one layer, the one of the first keyword its
\* lower-cased name holds (controller, then service, then model or entity);
\* layers lists each layer so found once, separation_of_concerns says that
\* there is more than one, and patterns lists MVC, Service Layer and
\* Repository Pattern exactly when some name holds controller, service and
\* repository.
C23_LayersAndPatterns ==
    Analyzed =>
        LET found == UNION {LayersOfName(file_contents[k].name) :
                              k \in 1..NumFiles}
            patterns == SeqToSet(Architecture.patterns)
        IN  /\ SeqToSet(Architecture.layers) = found
            /\ Len(Architecture.layers) = Cardinality(found)
            /\ Architecture.separation_of_concerns <=> Cardinality(found) > 1
            /\ patterns \subseteq {"MVC", "Service Layer", "Repository Pattern"}
            /\ Len(Architecture.patterns) = Cardinality(patterns)
            /\ "MVC" \in patterns <=> SomeNameHolds("controller")
            /\ "Service Layer" \in patterns <=> SomeNameHolds("service")
            /\ "Repository Pattern" \in patterns <=> SomeNameHolds("repository")

\* a name with the keywords service and model and a name in capitals with
\* the keyword model: two layers, one pattern
C23_Witness ==
    /\ Analyzed
    /\ NumFiles = 2
    /\ file_contents[1].name = "ModelService.dat"
    /\ file_contents[2].name = "USER_MODEL.dat"
    /\ SeqToSet(Architecture.layers) = {"Service Layer", "Data Layer"}
    /\ Architecture.separation_of_concerns
    /\ Architecture.patterns = <<"Service Layer">>

\* the markers of the flow tags: the tag, its markers, and whether a marker
\* is looked for in the lower-cased content
FlowMarkers ==
    [data_flow |->
        << <<"HTTP API calls", {"fetch(", "axios"}, FALSE>>,
           <<"State management", {"useState", "state"}, FALSE>>,
           <<"Component props", {"props"}, FALSE>> >>,
     request_flow |->
        << <<"Route handling", {"@app.route", "@router"}, FALSE>>,
           <<"Middleware processing", {"middleware"}, TRUE>>,
           <<"Authentication", {"authenticate", "auth"}, TRUE>> >>]

TagsIn(group, content) ==
    {group[k][1] : k \in {j \in 1..Len(group) :
        \E marker \in group[j][2] :
            StrIn(marker, IF group[j][3] THEN Lower(content) ELSE content)}}

\* the tags of each input content, tabulated
ContentTags ==
    [c \in {f.content : f \in InputFiles} |->
        [data_flow |-> TagsIn(FlowMarkers.data_flow, c),
         request_flow |-> TagsIn(FlowMarkers.request_flow, c)]]

\* the names with a component extension, tabulated
ComponentNames ==
    {n \in {f.name : f \in InputFiles} : AnyIn(<<".jsx", ".tsx", ".vue">>, n)}

\* the component files of the input, in input order
ComponentFiles ==
    LET files == SelectSeq(file_contents, LAMBDA f : f.name \in ComponentNames)
    IN  [k \in 1..Len(files) |-> files[k].name]

Flow == analysis_result.detailed_analysis.flow

\* C24: over all input files, whatever their bucket, data_flow and
\* request_flow hold a tag exactly when the content of some file carries a
\* marker of the tag, and hold no tag twice; total_components is the number
\* of files with a component extension and component_files names the first
\* ten of them (all when there are fewer) in input order.
C24_FlowTagsAndComponents ==
    Analyzed =>
        LET data == UNION {ContentTags[file_contents[k].content].data_flow :
                             k \in 1..NumFiles}
            request == UNION {ContentTags[file_contents[k].content].request_flow :
                                k \in 1..NumFiles}
            total == Len(ComponentFiles)
        IN  /\ SeqToSet(Flow.data_flow) = data
            /\ Len(Flow.data_flow) = Cardinality(data)
            /\ SeqToSet(Flow.request_flow) = request
            /\ Len(Flow.request_flow) = Cardinality(request)
            /\ Flow.component_hierarchy.total_components = total
            /\ Flow.component_hierarchy.component_files
                  = SubSeq(ComponentFiles, 1, IF total < 10 THEN total ELSE 10)

\* sixteen files, twelve of them components, whose contents carry two
\* data-flow markers several times over
C24_Witness ==
    /\ Analyzed
    /\ NumFiles = 16
    /\ Flow.component_hierarchy.total_components = 12
    /\ Len(Flow.component_hierarchy.component_files) = 10
    /\ SeqToSet(Flow.data_flow) = {"HTTP API calls", "Component props"}
    /\ Len(Flow.data_flow) = 2

Frontend == analysis_result.detailed_analysis.frontend

\* C30: the flow aspect counts as many components as the frontend aspect
\* lists, and component_files names the first ten entries of
\* frontend.components (all when there are fewer), in the same order.
C30_ComponentsAgree ==
    Analyzed =>
        LET names == [k \in 1..Len(Frontend.components) |->
                         Frontend.components[k].name]
            total == Flow.component_hierarchy.total_components
        IN  /\ total = Len(names)
            /\ Flow.component_hierarchy.component_files
                  = SubSeq(names, 1, IF total < 10 THEN total ELSE 10)

\* fifteen files, eleven of them components and four named Upper.VUE, which
\* the frontend bucket holds and neither aspect takes for a component
C30_Witness ==
    /\ Analyzed
    /\ NumFiles = 15
    /\ Len(buckets.frontend_files) = 15
    /\ Len(Frontend.components) = 11
    /\ Len(Flow.component_hierarchy.component_files) = 10

\* C28: the project_type of the overview goes with the architecture_type of
\* the result: 'Frontend Application' with 'Frontend' and 'Full-stack',
\* 'Backend API' with 'Backend', 'Web Application' with 'Static Website' and
\* 'Software Project' with 'Unknown'.
C28_ProjectTypeConsistent ==
    Analyzed =>
        LET project_type == analysis_result.detailed_analysis.overview.project_type
            architecture_type == analysis_result.architecture_type
        IN  \/ /\ architecture_type \in {<<"Frontend">>, <<"Full-stack">>}
               /\ project_type = "Frontend Application"
            \/ /\ architecture_type = <<"Backend">>
               /\ project_type = "Backend API"
            \/ /\ architecture_type = <<"Static Website">>
               /\ project_type = "Web Application"
            \/ /\ architecture_type = <<"Unknown">>
               /\ project_type = "Software Project"

\* the entries of a structure listing: its lines, none for the empty text
StructureEntries(structure) ==
    IF structure = "" THEN 0
    ELSE 1 + Cardinality({i \in 1..Len(structure) : Char(structure, i) = "\n"})

\* C26: in one result files_analyzed, context.file_count, the total_files of
\* the complexity indicators, the number of entries of the structure listing
\* and the length of context.files are one number; context.total_lines is
\* the total_lines of the complexity indicators; and complexity_score is
\* min(context.total_lines / 1000, 10).  (The score is held in thousandths.)
C26_SizeFiguresAgree ==
    Analyzed =>
        LET context == analysis_result.context
            count == analysis_result.files_analyzed
            lines == context.total_lines
        IN  /\ context.file_count = count
            /\ Indicators.total_files = count
            /\ StructureEntries(analysis_result.structure) = count
            /\ Len(context.files) = count
            /\ Indicators.total_lines = lines
            /\ analysis_result.complexity_score
                  = IF lines < 10 * 1000 THEN lines ELSE 10 * 1000

\* forty-two files of more than 10000 lines together
C26_Witness ==
    /\ Analyzed
    /\ analysis_result.files_analyzed = 42
    /\ analysis_result.context.total_lines = 10003
    /\ Indicators.total_lines = 10003
    /\ analysis_result.complexity_score = 10 * 1000

\* the aggregated facts of a result: the sets of frameworks and databases,
\* the language counts, the total line count, the score and the architecture
AggregatedFacts(result) ==
    [frameworks |-> SeqToSet(result.context.frameworks),
     databases |-> SeqToSet(result.context.databases),
     languages |-> SeqToSet(result.context.languages),
     total_lines |-> result.context.total_lines,
     complexity_score |-> result.complexity_score,
     architecture_type |-> result.architecture_type]

\* the aggregated facts the scan of lines 86-116 comes to on a file list,
\* with the score of line 134 and the architecture of line 137
AggregatedFactsOf(files) ==
    LET locals == ScanPrefix(files, Len(files))
    IN  [frameworks |-> locals.frameworks,
         databases |-> locals.databases,
         languages |-> SeqToSet(locals.languages),
         total_lines |-> locals.total_lines,
         complexity_score |-> ComplexityScore(locals.total_lines),
         architecture_type |->
            <<DetermineArchitecture(locals.frameworks, locals.languages)>>]

\* C25: when the scan of the file list is over, its sets of frameworks and
\* databases, its language counts and its total line count, and the
\* complexity_score and architecture_type they give, are those of the scan of
\* every permutation of the file list; and they are the aggregated facts of
\* the result.
C25_OrderIndependent ==
    LET scanned == [frameworks |-> frameworks,
                    databases |-> databases,
                    languages |-> SeqToSet(languages),
                    total_lines |-> total_lines,
                    complexity_score |-> ComplexityScore(total_lines),
                    architecture_type |->
                        <<DetermineArchitecture(frameworks, languages)>>]
    IN  /\ (pc = "scan" /\ idx = NumFiles) =>
              \A p \in Orders(1..NumFiles) :
                  AggregatedFactsOf([k \in 1..NumFiles |-> file_contents[p[k]]])
                     = scanned
        /\ Analyzed => AggregatedFacts(analysis_result) = scanned

\* three files of three names, two languages and two frameworks, one of them
\* in a file that comes last
C25_Witness ==
    /\ Analyzed
    /\ NumFiles = 3
    /\ \A i, j \in 1..3 : file_contents[i] = file_contents[j] => i = j
    /\ Cardinality(SeqToSet(analysis_result.context.frameworks)) = 2
    /\ Len(analysis_result.context.languages) = 2
    /\ Detected[file_contents[1].content].frameworks = {}
    /\ Detected[file_contents[3].content].frameworks /= {}

\* C29: a request without files is answered with status 400 and the detail
\* 'No files provided', nothing having been analyzed or stored, and the
\* status 500 answers only a request whose analysis or storage was entered.
C29_NoFilesAnswers400 ==
    (pc = "responded") =>
        /\ Len(file_contents) = 0 =>
              /\ response.status = 400
              /\ response.detail = "No files provided"
              /\ analysis_result = NoResult
              /\ store = NoStore
        /\ response.status = 500 => analysis_result /= NoResult

====
